---- MODULE Spec2Model ----
(***************************************************************************)
(* A model of the native core of mountaineer: the SSR execution engine     *)
(* (src/src/ssr.rs), the bounded-execution primitive (src/src/timeout.rs)  *)
(* the bundler driver (src/src/bundle_common.rs, bundle_prod.rs,           *)
(* bundle_independent.rs), the source-map parser and path rewriting       *)
(* (src/src/source_map.rs), the comment-stripping lexer                    *)
(* (src/src/lexers.rs), the logger initialization (src/src/logging.rs),    *)
(* the dependency watcher (src/src/dependencies.rs) and the build driver   *)
(* (src/src_go/src/lib.rs, build_javascript of src/src/lib.rs).            *)
(*                                                                         *)
(* In the SSR and bundler parts strings are sequences of atoms ("pieces"); *)
(* formatting and push_str are sequence concatenation.  The parts that     *)
(* scan characters use strings themselves.                                 *)
(***************************************************************************)
EXTENDS Integers, Sequences, FiniteSets, TLC

VARIABLES
    \* ---- Ssr::render as a function of its inputs (RenderSpec) ----
    source,          \* the script handed to Ssr::render (an abstract descriptor)
    params,          \* Option<&str> handed to Ssr::render
    rendered,        \* what Ssr::render returned, and the calls it made
    \* ---- run_ssr / run_thread_with_timeout (SsrSpec) ----
    INIT_PLATFORM,   \* the lazy_static Once guarding platform initialization
    stdout_lock,     \* owner of the process-wide io::stdout() lock
    call,            \* per run_ssr call: the caller's and the worker's state
    \* ---- bundle_common / compile_production_bundle (BundleSpec) ----
    bundle,          \* the last bundler-driver call: its inputs, effects and result
    \* ---- compile_independent_bundles (IndependentSpec) ----
    independent,     \* the call: its groups, the loop position, effects, result
    \* ---- SourceMapParser / VLQDecoder (SourceMapSpec) ----
    source_map,      \* the input string and what the parser returned
    \* ---- lexers::strip_js_comments (LexerSpec) ----
    lexer,           \* the input string and what the lexer returned
    \* ---- update_source_map_path / make_source_map_paths_absolute (PathsSpec) ----
    map_paths,       \* the inputs and what the function returned
    \* ---- logging::init_logger (LoggerSpec) ----
    logger,          \* the INIT flag behind its mutex, and the threads calling
    \* ---- DependencyWatcher (WatcherSpec) ----
    watcher,         \* the files on disk, the graph and the last call's result
    \* ---- src_go::rebuild_contexts and build_javascript (BuildSpec) ----
    build,           \* the call: its workers, channel, callbacks, files, result
    \* ---- the console bridge of Ssr::render (ConsoleSpec) ----
    console          \* the script's console calls, the writer and the result

\* The state of the components a specification does not exercise.
more_vars == <<map_paths, logger, watcher, build, console>>
MoreIdle ==
    /\ map_paths = [pc |-> "idle"]
    /\ logger = [pc |-> "idle"]
    /\ watcher = [pc |-> "idle"]
    /\ build = [pc |-> "idle"]
    /\ console = [pc |-> "idle"]

other_vars == <<independent, source_map, lexer, more_vars>>
OthersIdle ==
    /\ independent = [pc |-> "idle"] /\ source_map = [pc |-> "idle"] /\ lexer = [pc |-> "idle"]
    /\ MoreIdle

vars == <<source, params, rendered, INIT_PLATFORM, stdout_lock, call, bundle, other_vars>>

None == [tag |-> "None"]
Some(v) == [tag |-> "Some", v |-> v]

(***************************************************************************)
(* Bounds of the model.                                                    *)
(***************************************************************************)
MaxProps == 2        \* own properties of the entry object
MaxTimeout == 1      \* hard_timeout in clock ticks
MaxLogs == 1         \* console calls a script makes
MaxGroups == 3       \* page groups handed to compile_production_bundle

RECURSIVE Flatten(_)
Flatten(ss) == IF ss = <<>> THEN <<>> ELSE Head(ss) \o Flatten(Tail(ss))

Range(s) == {s[i] : i \in DOMAIN s}

\* All sequences over S of length n without repeated elements.
RECURSIVE InjSeqs(_, _)
InjSeqs(S, n) ==
    IF n = 0 THEN {<<>>}
    ELSE UNION {{Append(s, x) : x \in S \ Range(s)} : s \in InjSeqs(S, n - 1)}

(***************************************************************************)
(* The script: what the engine does with the source text.  The engine is   *)
(* a black box; a script descriptor fixes its observable behaviour.        *)
(*   fail     : the stage at which the engine fails before any exported    *)
(*              function is called ("none" when none does)                 *)
(*   stack    : whether the thrown value carries a stack trace             *)
(*   props    : the own properties of the entry object, in the engine's    *)
(*              own-property iteration order                               *)
(*   loops    : the script never returns from script.run                   *)
(*   logs     : number of console calls made before it returns             *)
(***************************************************************************)
PropNames == {"a", "b", "c"}
PropKinds == {"fn", "throws", "getter_throws"}
Stages == {"none", "string", "compile", "run", "to_object"}

Props == UNION {InjSeqs([name : PropNames, kind : PropKinds], n) : n \in 1..MaxProps}

UniqueNames(ps) == \A i, j \in DOMAIN ps : ps[i].name = ps[j].name => i = j

Scripts ==
    {[fail |-> f, stack |-> st, props |-> ps, loops |-> FALSE, logs |-> 0] :
        f \in Stages, st \in BOOLEAN, ps \in {p \in Props : UniqueNames(p)}}

\* What a function property returns, string-coerced, when called with args.
ReturnOf(name) == <<"<", name, ">">>
\* The engine's exception string and stack trace for a failure at a place.
ExceptionOf(where) == <<"Error: ", where>>
StackOf(where) == <<"    at ", where>>

V8ExceptionError(msg) == [tag |-> "V8ExceptionError", msg |-> msg]
HardTimeoutError(msg) == [tag |-> "HardTimeoutError", msg |-> msg]
Ok(v) == [tag |-> "Ok", value |-> v]
Panic == [tag |-> "panic"]

\* The variant of extract_exception_message that drops the stack trace.
extract_exception_message_without_stack(exception, stack_trace, user_msg) ==
    IF exception # None
    THEN user_msg \o <<": ">> \o exception.v
    ELSE <<"An unknown error occurred">>

\* Ssr::extract_exception_message
extract_exception_message(exception, stack_trace, user_msg) ==
    IF exception # None
    THEN LET maybe_stack == IF stack_trace = None THEN <<>>
                            ELSE <<"\nStack: ">> \o stack_trace.v
         IN user_msg \o <<": ">> \o exception.v \o maybe_stack
    ELSE <<"An unknown error occurred">>

\* The exception state of the TryCatch after a failure at `where`.
Caught(src, where, user_msg) ==
    V8ExceptionError(extract_exception_message(
        Some(ExceptionOf(where)),
        IF src.stack THEN Some(StackOf(where)) ELSE None,
        user_msg))

\* Ssr::create_fn_map: Some(props).iter().enumerate() visits the one Option
\* value, so i = 0 only and the map holds the property at index 0.
\* A throwing getter makes object.get(..).unwrap() panic.
create_fn_map(object) ==
    LET visited == {0}
    IN IF \E i \in visited : object[i + 1].kind = "getter_throws"
       THEN None
       ELSE Some([n \in {object[i + 1].name : i \in visited} |->
                    CHOOSE p \in Range(object) : p.name = n])

\* The loop of Ssr::render over fn_map, visiting the keys in `order`.
RECURSIVE call_all(_, _, _, _, _)
call_all(src, fn_map, order, params_v8, acc) ==
    IF order = <<>> THEN [result |-> Ok(acc.rendered), calls |-> acc.calls]
    ELSE LET key == Head(order)
             calls == Append(acc.calls, [name |-> key, args |-> <<params_v8>>])
         IN IF fn_map[key].kind = "throws"
            THEN [result |-> Caught(src, key, <<"Error calling function '", key, "'">>),
                  calls |-> calls]
            ELSE call_all(src, fn_map, Tail(order), params_v8,
                          [rendered |-> acc.rendered \o ReturnOf(key), calls |-> calls])

\* Ssr::render; `order` is the iteration order of the HashMap fn_map.
render(src, p, order) ==
    IF src.fail = "string"
    THEN [result |-> V8ExceptionError(<<"Failed to create code string">>), calls |-> <<>>]
    ELSE IF src.fail = "compile"
    THEN [result |-> Caught(src, "compile", <<"Script compilation failed">>), calls |-> <<>>]
    ELSE IF src.fail = "run"
    THEN [result |-> Caught(src, "run", <<"Script execution failed">>), calls |-> <<>>]
    ELSE IF src.fail = "to_object"
    THEN [result |-> Caught(src, "to_object", <<"Result is not an object">>), calls |-> <<>>]
    ELSE LET fn_map == create_fn_map(src.props)
             params_v8 == IF p = None THEN <<>> ELSE p.v
         IN IF fn_map = None THEN [result |-> Panic, calls |-> <<>>]
            ELSE call_all(src, fn_map.v, order, params_v8,
                          [rendered |-> <<>>, calls |-> <<>>])

\* The iteration orders a HashMap with these keys can produce.
HashMapOrders(src) ==
    IF src.fail # "none" \/ create_fn_map(src.props) = None THEN {<<>>}
    ELSE LET keys == DOMAIN create_fn_map(src.props).v
         IN InjSeqs(keys, Cardinality(keys))

(***************************************************************************)
(* RenderSpec: Ssr::render applied to every script of the bounded set.     *)
(***************************************************************************)
IdleCalls == <<>>
IdleRender == [pc |-> "idle"]

RenderInit ==
    /\ source \in Scripts
    /\ params \in {None, Some(<<"p">>)}
    /\ rendered = None
    /\ INIT_PLATFORM = [state |-> "incomplete", owner |-> None]
    /\ stdout_lock = None
    /\ call = IdleCalls
    /\ bundle = IdleRender
    /\ OthersIdle

\* Ssr::render_to_string
render_to_string ==
    /\ rendered = None
    /\ \E order \in HashMapOrders(source) : rendered' = render(source, params, order)
    /\ UNCHANGED <<source, params, INIT_PLATFORM, stdout_lock, call, bundle, other_vars>>

RenderNext == render_to_string

RenderSpec == RenderInit /\ [][RenderNext]_vars

(***************************************************************************)
(* SsrSpec: run_ssr calls made by concurrent callers.                      *)
(*                                                                         *)
(* Each call has a calling thread (pc) and a thread that runs the render   *)
(* (rpc): the calling thread itself when hard_timeout = 0, else a worker   *)
(* spawned by run_thread_with_timeout.  Time is a per-call tick counter    *)
(* that runs while the caller waits in recv_timeout.                       *)
(*                                                                         *)
(* Shared between calls: the Once behind lazy_static INIT_PLATFORM and the *)
(* process-wide lock inside io::stdout().                                  *)
(***************************************************************************)
Calls == {"c1", "c2"}

\* The scripts handed to run_ssr: one exported property that returns, throws
\* or is a throwing getter; a script that never returns; scripts that write
\* to the console before returning.
SsrScripts ==
    {js \in [fail : {"none"}, stack : {FALSE},
             props : {<<[name |-> "a", kind |-> k]>> : k \in PropKinds},
             loops : BOOLEAN, logs : 0..MaxLogs] :
        /\ js.loops => js.props[1].kind = "fn" /\ js.logs = 0
        /\ js.logs > 0 => js.props[1].kind = "fn"}

IdleCall ==
    [pc |-> "idle", rpc |-> "none", thread |-> "none", js_string |-> None,
     hard_timeout |-> 0, timeout |-> 0, elapsed |-> 0, chan |-> <<>>,
     cancelled |-> FALSE, logged |-> 0, outcome |-> None, result |-> None]

SsrInit ==
    /\ source = None
    /\ params = None
    /\ rendered = None
    /\ INIT_PLATFORM = [state |-> "incomplete", owner |-> None]
    /\ stdout_lock = None
    /\ call = [c \in Calls |-> IdleCall]
    /\ bundle = IdleRender
    /\ OthersIdle

OtherUnchanged == UNCHANGED <<source, params, rendered, bundle, other_vars>>

\* What the closure of run_ssr returns: js.render_to_string(None).
TaskResults(js) == {render(js, None, order).result : order \in HashMapOrders(js)}

\* run_thread_with_timeout up to recv_timeout: create the channel, spawn.
run_thread_with_timeout(c, js_string, hard_timeout, timeout) ==
    call' = [call EXCEPT ![c] =
                [IdleCall EXCEPT !.pc = "recv", !.rpc = "new", !.thread = "worker",
                                 !.js_string = js_string, !.hard_timeout = hard_timeout,
                                 !.timeout = timeout]]

\* The variant of run_ssr that always takes the worker path.
run_ssr_always_worker(c, js_string, hard_timeout) ==
    /\ call[c].pc = "idle"
    /\ run_thread_with_timeout(c, js_string, hard_timeout, hard_timeout)
    /\ UNCHANGED <<INIT_PLATFORM, stdout_lock>>
    /\ OtherUnchanged

\* run_ssr
run_ssr(c, js_string, hard_timeout) ==
    /\ call[c].pc = "idle"
    /\ IF hard_timeout > 0
       THEN run_thread_with_timeout(c, js_string, hard_timeout, hard_timeout)
       ELSE call' = [call EXCEPT ![c] =
                        [IdleCall EXCEPT !.pc = "inline", !.rpc = "new",
                                         !.thread = "caller", !.js_string = js_string,
                                         !.hard_timeout = hard_timeout]]
    /\ UNCHANGED <<INIT_PLATFORM, stdout_lock>>
    /\ OtherUnchanged

RunSsr(c) == \E js \in SsrScripts, t \in 0..MaxTimeout : run_ssr(c, js, t)

\* Ssr::new -> init_platform, first caller: run the initializer under the Once.
init_platform_begin(c) ==
    /\ call[c].rpc = "new"
    /\ INIT_PLATFORM.state = "incomplete"
    /\ INIT_PLATFORM' = [state |-> "running", owner |-> Some(c)]
    /\ call' = [call EXCEPT ![c].rpc = "init"]
    /\ UNCHANGED stdout_lock
    /\ OtherUnchanged

init_platform_end(c) ==
    /\ call[c].rpc = "init"
    /\ INIT_PLATFORM' = [state |-> "complete", owner |-> None]
    /\ call' = [call EXCEPT ![c].rpc = "render"]
    /\ UNCHANGED stdout_lock
    /\ OtherUnchanged

\* init_platform when the Once is complete: a no-op.  While it is running
\* the caller blocks (no step is enabled).
init_platform_done(c) ==
    /\ call[c].rpc = "new"
    /\ INIT_PLATFORM.state = "complete"
    /\ call' = [call EXCEPT ![c].rpc = "render"]
    /\ UNCHANGED <<INIT_PLATFORM, stdout_lock>>
    /\ OtherUnchanged

\* The render thread ends by a panic: a worker drops tx without sending,
\* an inline call unwinds into its caller.
Panicked(c) ==
    IF call[c].thread = "caller"
    THEN [call EXCEPT ![c].rpc = "panicked", ![c].pc = "done", ![c].result = Panic]
    ELSE [call EXCEPT ![c].rpc = "panicked"]

\* init_platform when the Once is poisoned: call_once panics.
init_platform_poisoned(c) ==
    /\ call[c].rpc = "new"
    /\ INIT_PLATFORM.state = "poisoned"
    /\ call' = Panicked(c)
    /\ UNCHANGED <<INIT_PLATFORM, stdout_lock>>
    /\ OtherUnchanged

\* The console bridge of inject_logger: writeln! to the writer takes the
\* stdout lock for the write.
console_write_begin(c) ==
    /\ call[c].rpc = "render"
    /\ call[c].logged < call[c].js_string.logs
    /\ stdout_lock = None
    /\ stdout_lock' = Some(c)
    /\ call' = [call EXCEPT ![c].rpc = "writing"]
    /\ UNCHANGED INIT_PLATFORM
    /\ OtherUnchanged

console_write_end(c) ==
    /\ call[c].rpc = "writing"
    /\ stdout_lock' = None
    /\ call' = [call EXCEPT ![c].rpc = "render", ![c].logged = @ + 1]
    /\ UNCHANGED INIT_PLATFORM
    /\ OtherUnchanged

\* Ssr::render returns (or panics); a script that loops never gets here.
render_finish(c) ==
    /\ call[c].rpc = "render"
    /\ call[c].logged = call[c].js_string.logs
    /\ ~call[c].js_string.loops
    /\ \E r \in TaskResults(call[c].js_string) :
          call' = IF r = Panic THEN Panicked(c)
                  ELSE IF call[c].thread = "caller"
                  THEN [call EXCEPT ![c].rpc = "exited", ![c].pc = "done", ![c].result = r]
                  ELSE [call EXCEPT ![c].rpc = "send", ![c].outcome = r]
    /\ UNCHANGED <<INIT_PLATFORM, stdout_lock>>
    /\ OtherUnchanged

\* The variant of the worker that sends on a channel all calls share.
worker_send_shared_channel(c) ==
    /\ call[c].rpc = "send"
    /\ \E d \in Calls :
          /\ call[d].pc = "recv"
          /\ call' = [call EXCEPT ![c].rpc = "sent", ![d].chan = Append(@, call[c].outcome)]
    /\ UNCHANGED <<INIT_PLATFORM, stdout_lock>>
    /\ OtherUnchanged

\* tx.send(result).expect(..): fails, and panics, once the receiver is gone.
worker_send(c) ==
    /\ call[c].rpc = "send"
    /\ call' = IF call[c].pc = "recv"
               THEN [call EXCEPT ![c].rpc = "sent", ![c].chan = Append(@, call[c].outcome)]
               ELSE [call EXCEPT ![c].rpc = "panicked"]
    /\ UNCHANGED <<INIT_PLATFORM, stdout_lock>>
    /\ OtherUnchanged

worker_exit(c) ==
    /\ call[c].rpc = "sent"
    /\ call' = [call EXCEPT ![c].rpc = "exited"]
    /\ UNCHANGED <<INIT_PLATFORM, stdout_lock>>
    /\ OtherUnchanged

\* Time passes while the caller waits in recv_timeout.
Tick(c) ==
    /\ call[c].pc = "recv"
    /\ call[c].elapsed < call[c].timeout
    /\ call' = [call EXCEPT ![c].elapsed = @ + 1]
    /\ UNCHANGED <<INIT_PLATFORM, stdout_lock>>
    /\ OtherUnchanged

\* The variant of the Ok arm that returns without joining the worker.
recv_ok_no_join(c) ==
    /\ call[c].pc = "recv"
    /\ call[c].chan # <<>>
    /\ call' = [call EXCEPT ![c].pc = "done", ![c].result = Head(call[c].chan),
                            ![c].chan = Tail(@)]
    /\ UNCHANGED <<INIT_PLATFORM, stdout_lock>>
    /\ OtherUnchanged

\* rx.recv_timeout(timeout) = Ok(result)
recv_ok(c) ==
    /\ call[c].pc = "recv"
    /\ call[c].chan # <<>>
    /\ call' = [call EXCEPT ![c].pc = "join", ![c].outcome = Head(call[c].chan),
                            ![c].chan = Tail(@)]
    /\ UNCHANGED <<INIT_PLATFORM, stdout_lock>>
    /\ OtherUnchanged

\* handle.join(); result
join(c) ==
    /\ call[c].pc = "join"
    /\ call[c].rpc = "exited"
    /\ call' = [call EXCEPT ![c].pc = "done", ![c].result = call[c].outcome]
    /\ UNCHANGED <<INIT_PLATFORM, stdout_lock>>
    /\ OtherUnchanged

WorkerEnded(c) == call[c].rpc \in {"exited", "panicked", "killed"}

\* The variant of the Err arm that waits for the worker before returning.
recv_err_after_worker(c) ==
    /\ call[c].pc = "recv"
    /\ call[c].chan = <<>>
    /\ WorkerEnded(c)
    /\ call' = [call EXCEPT ![c].pc = "done", ![c].cancelled = TRUE,
                   ![c].result = HardTimeoutError(<<"Function execution timed out">>)]
    /\ UNCHANGED <<INIT_PLATFORM, stdout_lock>>
    /\ OtherUnchanged

\* rx.recv_timeout(timeout) = Err(_): Timeout once the deadline has elapsed
\* on an empty channel, Disconnected once the worker has dropped tx without
\* sending.  Either way: cancel_thread(handle), return HardTimeoutError.
recv_err(c) ==
    /\ call[c].pc = "recv"
    /\ call[c].chan = <<>>
    /\ \/ call[c].elapsed = call[c].timeout
       \/ call[c].rpc = "panicked"
    /\ call' = [call EXCEPT ![c].pc = "done", ![c].cancelled = TRUE,
                   ![c].result = HardTimeoutError(<<"Function execution timed out">>)]
    /\ UNCHANGED <<INIT_PLATFORM, stdout_lock>>
    /\ OtherUnchanged

\* platform::cancel_thread takes effect.  The worker stops where it is; what
\* it holds is either left held (TerminateThread, cancellation without
\* unwinding) or dropped by a forced unwind (the Once is then poisoned).
cancel_thread(c) ==
    /\ call[c].cancelled
    /\ call[c].rpc \in {"new", "init", "render", "writing", "send"}
    /\ call' = [call EXCEPT ![c].rpc = "killed"]
    /\ \/ UNCHANGED <<INIT_PLATFORM, stdout_lock>>
       \/ /\ INIT_PLATFORM.owner = Some(c) \/ stdout_lock = Some(c)
          /\ INIT_PLATFORM' = IF INIT_PLATFORM.owner = Some(c)
                              THEN [state |-> "poisoned", owner |-> None]
                              ELSE INIT_PLATFORM
          /\ stdout_lock' = IF stdout_lock = Some(c) THEN None ELSE stdout_lock
    /\ OtherUnchanged

CallerStep(c) == Tick(c) \/ recv_ok(c) \/ recv_err(c) \/ join(c)

SsrNext ==
    \E c \in Calls :
        \/ RunSsr(c)
        \/ init_platform_begin(c)
        \/ init_platform_end(c)
        \/ init_platform_done(c)
        \/ init_platform_poisoned(c)
        \/ console_write_begin(c)
        \/ console_write_end(c)
        \/ render_finish(c)
        \/ worker_send(c)
        \/ worker_exit(c)
        \/ Tick(c)
        \/ recv_ok(c)
        \/ recv_err(c)
        \/ join(c)
        \/ cancel_thread(c)

SsrSpec == SsrInit /\ [][SsrNext]_vars

\* The caller's own thread is scheduled and its clock advances.
SsrFairSpec == SsrSpec /\ \A c \in Calls : WF_vars(CallerStep(c))

(***************************************************************************)
(* Claims about run_ssr and run_thread_with_timeout.                       *)
(***************************************************************************)
TimedOut(c) == call[c].pc = "done" /\ call[c].result.tag = "HardTimeoutError"

\* C2: for a task that never completes, run_thread_with_timeout still
\* terminates: it requests cancellation of the worker and returns
\* HardTimeout, without waiting for the worker to finish.
C2_RunawayTaskReturnsHardTimeout ==
    \A c \in Calls :
        (call[c].pc = "recv" /\ call[c].js_string.loops)
            ~> (TimedOut(c) /\ call[c].cancelled)

C2_Witness ==
    \E c \in Calls :
        /\ TimedOut(c)
        /\ call[c].js_string.loops
        /\ call[c].elapsed = call[c].timeout
        /\ call[c].rpc = "render"

\* C3: whenever the worker has sent its result before the deadline fired,
\* run_thread_with_timeout joins the worker and returns exactly the task's
\* own result, a value or an error, and never HardTimeout.
C3_TimelyResultIsReturned ==
    \A c \in Calls :
        (call[c].thread = "worker" /\ call[c].pc = "done"
            /\ call[c].rpc \in {"sent", "exited"}) =>
                /\ call[c].result \in TaskResults(call[c].js_string)
                /\ call[c].result.tag # "HardTimeoutError"
                /\ call[c].rpc = "exited"

C3_Witness ==
    \E c \in Calls :
        /\ call[c].thread = "worker"
        /\ call[c].pc = "done"
        /\ call[c].rpc = "exited"
        /\ call[c].elapsed = call[c].timeout
        /\ call[c].result.tag = "V8ExceptionError"

\* C4: run_ssr with hard_timeout = 0 renders on the calling thread, spawns
\* no worker and never returns HardTimeout; with hard_timeout > 0 it renders
\* on a worker through run_thread_with_timeout with exactly that deadline.
C4_InlineIffNoTimeout ==
    \A c \in Calls :
        call[c].pc # "idle" =>
            IF call[c].hard_timeout = 0
            THEN call[c].thread = "caller" /\ call[c].pc \notin {"recv", "join"}
                    /\ call[c].result.tag # "HardTimeoutError"
            ELSE call[c].thread = "worker" /\ call[c].timeout = call[c].hard_timeout

C4_Witness ==
    \E c, d \in Calls :
        /\ call[c].pc = "done" /\ call[c].hard_timeout = 0 /\ call[c].result.tag = "Ok"
        /\ call[d].pc = "done" /\ call[d].hard_timeout = MaxTimeout
        /\ call[d].result.tag = "HardTimeoutError"

\* C5: HardTimeout is returned only when the deadline was reached: whenever
\* run_thread_with_timeout returns HardTimeout the full timeout has elapsed
\* with no result available.
C5_HardTimeoutOnlyAtDeadline ==
    \A c \in Calls :
        TimedOut(c) => call[c].elapsed = call[c].timeout /\ call[c].chan = <<>>

\* A render thread that waits for a lock whose owner was cancelled.
BlockedForever(c) ==
    \/ /\ call[c].rpc = "new"
       /\ INIT_PLATFORM.state = "running"
       /\ \E d \in Calls : INIT_PLATFORM.owner = Some(d) /\ call[d].rpc = "killed"
    \/ /\ call[c].rpc = "render"
       /\ call[c].logged < call[c].js_string.logs
       /\ \E d \in Calls : stdout_lock = Some(d) /\ call[d].rpc = "killed"

\* C7: cancelling a timed-out worker never blocks another caller forever:
\* after a run_ssr call has returned HardTimeout, no other run_ssr call
\* waits for a lock that the cancelled worker held.
C7_CancellationBlocksNoCaller ==
    \A c \in Calls : ~BlockedForever(c)

(***************************************************************************)
(* BundleSpec: bundle_common and compile_production_bundle.                *)
(*                                                                         *)
(* A path is [dir, name, exts]: "/app/a.js" is name <<"a">>, exts <<"js">>;*)
(* "entrypoint0.js.map" is name <<"entrypoint", 0>>, exts <<"js", "map">>. *)
(* The bundler is a black box: given the inputs it fails, or it leaves in  *)
(* the output directory <name>.js for the inputs (possibly missing one),   *)
(* <name>.js.map beside them (possibly missing one), and possibly a shared *)
(* chunk or a subdirectory.  read_dir enumerates in any order.             *)
(***************************************************************************)
MaxEntries == 2      \* entry paths handed to bundle_common directly

Front(s) == SubSeq(s, 1, Len(s) - 1)
Last(s) == s[Len(s)]

\* Path::file_stem, Path::extension, Path::with_extension
file_stem(path) == [name |-> path.name, exts |-> Front(path.exts)]
extension(path) == IF path.exts = <<>> THEN None ELSE Some(Last(path.exts))
with_extension(path, exts) == [path EXCEPT !.exts = Front(path.exts) \o exts]
FileName(path) == [name |-> path.name, exts |-> path.exts]

Modes == {"SingleClient", "MultiClient", "SingleServer"}
AppPaths ==
    {[dir |-> "/app", name |-> <<n>>, exts |-> <<"js">>] : n \in {"a", "b"}}
        \cup {[dir |-> "/lib", name |-> <<"a">>, exts |-> <<"js">>]}
\* The content of an entry file.
SourceOf(path) == <<"source of", path.dir, path.name>>
PagePaths == {<<"/app/layout.tsx", "/app/page.tsx">>, <<"/app/home.tsx">>}

InvalidInput(msg) == [tag |-> "InvalidInput", msg |-> msg]
FileNotFound(path) == [tag |-> "FileNotFound", path |-> path]
IoError == [tag |-> "IoError"]
BundlingError == [tag |-> "BundlingError"]
OutputError(msg) == [tag |-> "OutputError", msg |-> msg]

\* code_gen::build_entrypoint
build_entrypoint(path_group, is_server, live_reload_import) ==
    <<"import React from 'react';", <<"import mountLiveReload from", live_reload_import>>>>
    \o [j \in DOMAIN path_group |-> <<"import Layout", j - 1, "from", path_group[j]>>]
    \o <<"const Entrypoint = () => {", "mountLiveReload({});", "return (">>
    \o [i \in DOMAIN path_group |-> <<"<Layout", i - 1, ">">>]
    \o [i \in DOMAIN path_group |-> <<"</Layout", Len(path_group) - i, ">">>]
    \o <<");", "};">>
    \o (IF ~is_server
        THEN <<"import { hydrateRoot } from 'react-dom/client';",
               "const container = document.getElementById('root');",
               "hydrateRoot(container, <Entrypoint />);">>
        ELSE <<"import { renderToString } from 'react-dom/server';",
               "export const Index = () => renderToString(<Entrypoint />);">>)

\* create_synthetic_entrypoints_rust: entrypoint<index>.jsx, index from 0.
create_synthetic_entrypoints_rust(paths, is_server, live_reload_import) ==
    [i \in DOMAIN paths |->
        [path |-> [dir |-> "/tmp/entry", name |-> <<"entrypoint", i - 1>>, exts |-> <<"jsx">>],
         content |-> build_entrypoint(paths[i], is_server, live_reload_import)]]

\* The bundler's output for one input: the script and its source map.
ScriptOf(content) == [script_of |-> content]
MapOf(content) == [map_of |-> content]

\* What the bundler can leave in the output directory for these inputs
\* (the InputItems: name = file stem, import = path, with the file content).
\* Two InputItems of the same name (equal stems in different directories)
\* are written under deduplicated chunk names, or the later one overwrites
\* the earlier one.
BundlerOutputs(inputs) ==
    LET idx == DOMAIN inputs
        nameOf(i) == inputs[i].path.name
        dup(i) == \E j \in 1..(i - 1) : nameOf(j) = nameOf(i)
        overwritten(i) == \E j \in idx : j > i /\ nameOf(j) = nameOf(i)
        chunkName(i, dedupe) == IF dedupe /\ dup(i) THEN nameOf(i) \o <<2>> ELSE nameOf(i)
        written(dedupe) == IF dedupe THEN idx ELSE {i \in idx : ~overwritten(i)}
        js(i, d) == [kind |-> "file", name |-> chunkName(i, d), exts |-> <<"js">>,
                     content |-> ScriptOf(inputs[i].content)]
        map(i, d) == [kind |-> "file", name |-> chunkName(i, d), exts |-> <<"js", "map">>,
                      content |-> MapOf(inputs[i].content)]
        chunk == [kind |-> "file", name |-> <<"chunk-1f3a">>, exts |-> <<"js">>, content |-> ScriptOf(<<"shared">>)]
        chunkmap == [kind |-> "file", name |-> <<"chunk-1f3a">>, exts |-> <<"js", "map">>, content |-> MapOf(<<"shared">>)]
        assets == [kind |-> "dir", name |-> <<"assets">>, exts |-> <<>>, content |-> None]
    IN {({js(i, d) : i \in written(d) \ missing}
            \cup {map(i, d) : i \in written(d) \ (missing \cup nomap)})
            \cup extra :
          d \in IF \E i \in idx : dup(i) THEN BOOLEAN ELSE {TRUE},
          missing \in {{}} \cup {{i} : i \in idx},
          nomap \in {{}} \cup {{i} : i \in idx},
          extra \in {{}, {chunk}, {chunk, chunkmap}, {assets}}}

EmptyMap == <<>>
Insert(m, k, v) == [x \in DOMAIN m \cup {k} |-> IF x = k THEN v ELSE m[x]]

IdleBundle ==
    [pc |-> "idle", fn |-> "none", paths |-> <<>>, is_server |-> FALSE,
     entrypoint_paths |-> <<>>, mode |-> "none", exists |-> {}, temp_dir |-> FALSE,
     bundler_invoked |-> FALSE, dir |-> {}, remaining |-> {},
     entrypoints |-> EmptyMap, extras |-> EmptyMap, result |-> None]

\* The variant of the validation that checks existence first.
validate_existence_first(entrypoint_paths, mode, exists) ==
    IF \E i \in DOMAIN entrypoint_paths : entrypoint_paths[i] \notin exists
    THEN Some(FileNotFound(entrypoint_paths[
            CHOOSE i \in DOMAIN entrypoint_paths : entrypoint_paths[i] \notin exists]))
    ELSE IF entrypoint_paths = <<>>
    THEN Some(InvalidInput(<<"No entrypoint paths provided">>))
    ELSE None

\* bundle_common, validation (lines 119-143): the error it returns, or None.
validate_inputs(entrypoint_paths, mode, exists) ==
    IF entrypoint_paths = <<>>
    THEN Some(InvalidInput(<<"No entrypoint paths provided">>))
    ELSE IF mode \in {"SingleClient", "SingleServer"} /\ Len(entrypoint_paths) > 1
    THEN Some(InvalidInput(<<"Mode ", mode, " only supports a single entrypoint, but ",
                             Len(entrypoint_paths), " were provided">>))
    ELSE IF \E i \in DOMAIN entrypoint_paths : entrypoint_paths[i] \notin exists
    THEN LET first == CHOOSE i \in DOMAIN entrypoint_paths :
                          /\ entrypoint_paths[i] \notin exists
                          /\ \A j \in 1..(i - 1) : entrypoint_paths[j] \in exists
         IN Some(FileNotFound(entrypoint_paths[first]))
    ELSE None

\* bundle_common up to the walk of the output directory.  `world` is what
\* the environment does: which files exist, whether TempDir::new fails,
\* what the bundler does.
bundle_common(b, inputs, mode, world) ==
    LET entrypoint_paths == [i \in DOMAIN inputs |-> inputs[i].path]
        invalid == validate_inputs(entrypoint_paths, mode, world.exists)
        called == [b EXCEPT !.entrypoint_paths = entrypoint_paths, !.mode = mode,
                            !.exists = world.exists]
    IN IF invalid # None
       THEN [called EXCEPT !.pc = "done", !.result = invalid.v]
       ELSE IF world.io = "temp_dir"
       THEN [called EXCEPT !.pc = "done", !.result = IoError]
       ELSE IF world.bundler = None
       THEN [called EXCEPT !.pc = "done", !.temp_dir = TRUE, !.bundler_invoked = TRUE,
                           !.result = BundlingError]
       ELSE [called EXCEPT !.pc = "walk", !.temp_dir = TRUE, !.bundler_invoked = TRUE,
                           !.dir = world.bundler.v, !.remaining = world.bundler.v]

\* What the environment can do around a bundle pass over these inputs.
Worlds(inputs, existing) ==
    {[exists |-> ex, io |-> io, bundler |-> out] :
        ex \in existing, io \in {"none", "temp_dir"},
        out \in {None} \cup {Some(o) : o \in BundlerOutputs(inputs)}}

\* A direct call of bundle_common (as compile_independent_bundles and the
\* tests make it) on entry files that may or may not exist.
BundleCommon ==
    /\ bundle.pc = "idle"
    /\ \E n \in 0..MaxEntries :
       \E ps \in InjSeqs(AppPaths, n), mode \in Modes :
       LET inputs == [i \in DOMAIN ps |-> [path |-> ps[i], content |-> SourceOf(ps[i])]]
       IN \E world \in Worlds(inputs, SUBSET AppPaths) :
            bundle' = bundle_common([IdleBundle EXCEPT !.fn = "bundle_common"],
                                    inputs, mode, world)
    /\ UNCHANGED <<source, params, rendered, INIT_PLATFORM, stdout_lock, call, other_vars>>

\* The variant that bundles the server wrappers in MultiClient mode.
compile_production_bundle_rust_multi(paths, is_server, world) ==
    IF world.io = "wrappers"
    THEN [IdleBundle EXCEPT !.fn = "compile_production_bundle", !.paths = paths,
                            !.is_server = is_server, !.pc = "done", !.result = IoError]
    ELSE LET inputs == create_synthetic_entrypoints_rust(paths, is_server, "/app/live_reload.ts")
         IN bundle_common([IdleBundle EXCEPT !.fn = "compile_production_bundle",
                                             !.paths = paths, !.is_server = is_server],
                          inputs, "MultiClient", world)

\* compile_production_bundle_rust up to the walk of the output directory.
compile_production_bundle_rust(paths, is_server, world) ==
    IF world.io = "wrappers"
    THEN [IdleBundle EXCEPT !.fn = "compile_production_bundle", !.paths = paths,
                            !.is_server = is_server, !.pc = "done", !.result = IoError]
    ELSE LET inputs == create_synthetic_entrypoints_rust(paths, is_server, "/app/live_reload.ts")
             bundle_mode == IF is_server THEN "SingleServer" ELSE "MultiClient"
         IN bundle_common([IdleBundle EXCEPT !.fn = "compile_production_bundle",
                                             !.paths = paths, !.is_server = is_server],
                          inputs, bundle_mode, world)

CompileProductionBundle ==
    /\ bundle.pc = "idle"
    /\ \E n \in 0..MaxGroups :
       \E paths \in [1..n -> PagePaths], is_server \in BOOLEAN :
       LET inputs == create_synthetic_entrypoints_rust(paths, is_server, "/app/live_reload.ts")
           written == {inputs[i].path : i \in DOMAIN inputs}
       IN \E world \in Worlds(inputs, {written}) \cup
                       {[exists |-> {}, io |-> "wrappers", bundler |-> None]} :
            bundle' = compile_production_bundle_rust(paths, is_server, world)
    /\ UNCHANGED <<source, params, rendered, INIT_PLATFORM, stdout_lock, call, other_vars>>

\* process_output_directory, one directory entry of the read_dir loop.
process_output_entry(b, path) ==
    LET rest == [b EXCEPT !.remaining = @ \ {path}]
    IN IF path.kind # "file" THEN rest
       ELSE IF extension(path) = Some("map") THEN rest
       ELSE LET map_path == FileName(with_extension(path, <<"js", "map">>))
                maps == {f \in b.dir : f.kind = "file" /\ FileName(f) = map_path}
                map == IF maps # {} THEN Some((CHOOSE f \in maps : TRUE).content) ELSE None
                bundle_result == [script |-> path.content, map |-> map]
                is_entrypoint == \E i \in DOMAIN b.entrypoint_paths :
                                    file_stem(b.entrypoint_paths[i]) = file_stem(path)
            IN IF is_entrypoint
               THEN [rest EXCEPT !.entrypoints = Insert(@, file_stem(path), bundle_result)]
               ELSE [rest EXCEPT !.extras = Insert(@, FileName(path), bundle_result)]

ProcessOutputEntry ==
    /\ bundle.pc = "walk"
    /\ \E path \in bundle.remaining : bundle' = process_output_entry(bundle, path)
    /\ UNCHANGED <<source, params, rendered, INIT_PLATFORM, stdout_lock, call, other_vars>>

\* The loop of compile_production_bundle_rust over entrypoint_paths
\* (lines 126-139), from index i on.
RECURSIVE collect_entrypoints(_, _, _)
collect_entrypoints(b, i, acc) ==
    IF i > Len(b.entrypoint_paths) THEN Some(acc)
    ELSE LET stem == file_stem(b.entrypoint_paths[i])
         IN IF stem \notin DOMAIN b.entrypoints
            THEN None
            ELSE collect_entrypoints(b, i + 1,
                    [entrypoints |-> Append(acc.entrypoints, b.entrypoints[stem].script),
                     entrypoint_maps |-> Append(acc.entrypoint_maps,
                        IF b.entrypoints[stem].map = None THEN <<>>
                        ELSE b.entrypoints[stem].map.v)])

FirstMissing(b) ==
    CHOOSE i \in DOMAIN b.entrypoint_paths :
        /\ file_stem(b.entrypoint_paths[i]) \notin DOMAIN b.entrypoints
        /\ \A j \in 1..(i - 1) : file_stem(b.entrypoint_paths[j]) \in DOMAIN b.entrypoints

\* The variant that returns the entry scripts in a fixed order of the
\* bundle results instead of the order of the inputs.
production_output_by_result_order(b) ==
    LET keys == DOMAIN b.entrypoints
        order == CHOOSE s \in InjSeqs(keys, Cardinality(keys)) :
                    \A i \in 1..(Len(s) - 1) : s[i].name[2] > s[i + 1].name[2]
    IN Ok([entrypoints |-> [i \in DOMAIN order |-> b.entrypoints[order[i]].script],
           entrypoint_maps |-> [i \in DOMAIN order |->
                IF b.entrypoints[order[i]].map = None THEN <<>>
                ELSE b.entrypoints[order[i]].map.v],
           supporting |-> [k \in DOMAIN b.extras |-> b.extras[k].script],
           supporting_maps |-> [k \in {x \in DOMAIN b.extras : b.extras[x].map # None} |->
                                    b.extras[k].map.v]])

\* compile_production_bundle_rust after bundle_common has returned Ok.
production_output(b) ==
    LET lists == collect_entrypoints(b, 1, [entrypoints |-> <<>>, entrypoint_maps |-> <<>>])
    IN IF lists = None
       THEN OutputError(<<"No bundle result for entrypoint: ",
                          file_stem(b.entrypoint_paths[FirstMissing(b)])>>)
       ELSE Ok([entrypoints |-> lists.v.entrypoints,
                entrypoint_maps |-> lists.v.entrypoint_maps,
                supporting |-> [k \in DOMAIN b.extras |-> b.extras[k].script],
                supporting_maps |-> [k \in {x \in DOMAIN b.extras : b.extras[x].map # None} |->
                                        b.extras[k].map.v]])

\* process_output_directory returns BundleResults; the production
\* orchestrator then builds its ordered lists.
ProcessOutputDone ==
    /\ bundle.pc = "walk"
    /\ bundle.remaining = {}
    /\ bundle' = [bundle EXCEPT !.pc = "done",
                    !.result = IF bundle.fn = "compile_production_bundle"
                               THEN production_output(bundle)
                               ELSE Ok([entrypoints |-> bundle.entrypoints,
                                        extras |-> bundle.extras])]
    /\ UNCHANGED <<source, params, rendered, INIT_PLATFORM, stdout_lock, call, other_vars>>

BundleInit ==
    /\ source = None
    /\ params = None
    /\ rendered = None
    /\ INIT_PLATFORM = [state |-> "incomplete", owner |-> None]
    /\ stdout_lock = None
    /\ call = IdleCalls
    /\ bundle = IdleBundle
    /\ OthersIdle

BundleNext ==
    \/ BundleCommon
    \/ CompileProductionBundle
    \/ ProcessOutputEntry
    \/ ProcessOutputDone

BundleSpec == BundleInit /\ [][BundleNext]_vars

(***************************************************************************)
(* Claims about the bundler driver.                                        *)
(***************************************************************************)
ProductionDone == bundle.pc = "done" /\ bundle.fn = "compile_production_bundle"

\* The file the bundler left for the wrapper of the i-th group (i from 1).
EmittedFor(i, exts) ==
    {f \in bundle.dir : f.kind = "file" /\ f.name = <<"entrypoint", i - 1>> /\ f.exts = exts}

WrapperOf(i) == build_entrypoint(bundle.paths[i], bundle.is_server, "/app/live_reload.ts")

MissingEntries ==
    {i \in DOMAIN bundle.entrypoint_paths : bundle.entrypoint_paths[i] \notin bundle.exists}
NoSideEffects == ~bundle.temp_dir /\ ~bundle.bundler_invoked /\ bundle.dir = {}

\* C10: bundle_common returns InvalidInput when the entry list is empty or
\* when SingleClient/SingleServer is given more than one entry, and
\* otherwise FileNotFound naming the first listed entry that does not
\* exist; in each case before the temporary output directory is created or
\* the bundler is invoked.
C10_ValidationBeforeSideEffects ==
    (bundle.pc = "done" /\ bundle.mode # "none") =>
        IF bundle.entrypoint_paths = <<>>
               \/ (bundle.mode \in {"SingleClient", "SingleServer"}
                       /\ Len(bundle.entrypoint_paths) > 1)
        THEN bundle.result.tag = "InvalidInput" /\ NoSideEffects
        ELSE MissingEntries # {} =>
                /\ bundle.result.tag = "FileNotFound"
                /\ \E i \in MissingEntries :
                      /\ \A j \in MissingEntries : i <= j
                      /\ bundle.result.path = bundle.entrypoint_paths[i]
                /\ NoSideEffects

C10_Witness ==
    /\ bundle.pc = "done"
    /\ bundle.mode = "MultiClient"
    /\ Cardinality(MissingEntries) = MaxEntries
    /\ bundle.result.tag = "FileNotFound"

BundlePassDone ==
    bundle.pc = "done" /\ bundle.fn = "bundle_common" /\ bundle.result.tag = "Ok"

\* The emitted files that process_output_directory classifies.
EmittedScripts == {f \in bundle.dir : f.kind = "file" /\ extension(f) # Some("map")}

\* C11: after a successful bundle pass, for every entry input with file
\* stem S the entrypoints map has key S and its value is the script emitted
\* for that input; every other emitted non-.map file is in extras under
\* its name with extension, and no file is in both maps.
C11_EntrypointsHoldEveryInput ==
    BundlePassDone =>
        LET entrypoints == bundle.result.value.entrypoints
            extras == bundle.result.value.extras
            stems == {file_stem(bundle.entrypoint_paths[i]) : i \in DOMAIN bundle.entrypoint_paths}
        IN /\ \A i \in DOMAIN bundle.entrypoint_paths :
                LET S == file_stem(bundle.entrypoint_paths[i])
                IN /\ S \in DOMAIN entrypoints
                   /\ entrypoints[S].script = ScriptOf(SourceOf(bundle.entrypoint_paths[i]))
           /\ \A f \in EmittedScripts :
                IF file_stem(f) \in stems
                THEN FileName(f) \notin DOMAIN extras
                ELSE /\ FileName(f) \in DOMAIN extras
                     /\ extras[FileName(f)].script = f.content
                     /\ file_stem(f) \notin DOMAIN entrypoints


(***************************************************************************)
(* Claims about Ssr::render.                                               *)
(***************************************************************************)
Names(ps) == [i \in DOMAIN ps |-> ps[i].name]
CallNames(cs) == [i \in DOMAIN cs |-> cs[i].name]
Returns(names) == Flatten([i \in DOMAIN names |-> ReturnOf(names[i])])
AllFunctions(src) == src.fail = "none" /\ \A i \in DOMAIN src.props : src.props[i].kind = "fn"
ParamsArg == IF params = None THEN <<>> ELSE params.v

\* C1: for an entry object whose own properties are all functions, render
\* calls every one of them exactly once, each with the single params
\* argument, and returns the concatenation of their return values, for
\* every number n >= 1 of properties.
C1_RenderCallsEveryFunctionOnce ==
    (rendered # None /\ AllFunctions(source)) =>
        /\ Len(rendered.calls) = Len(source.props)
        /\ \A i \in DOMAIN source.props :
              Cardinality({k \in DOMAIN rendered.calls :
                              rendered.calls[k].name = source.props[i].name}) = 1
        /\ \A k \in DOMAIN rendered.calls : rendered.calls[k].args = <<ParamsArg>>
        /\ rendered.result = Ok(Returns(CallNames(rendered.calls)))

\* C8: the exported functions are invoked in the own-property iteration
\* order of the entry object and the result is the concatenation of their
\* results in that order.
C8_CallsInOwnPropertyOrder ==
    (rendered # None /\ AllFunctions(source)) =>
        /\ CallNames(rendered.calls) = Names(source.props)
        /\ rendered.result = Ok(Returns(Names(source.props)))

\* The stage whose failure ends the render, read off the calls it made.
ThrowingCall ==
    {k \in DOMAIN rendered.calls :
        \E i \in DOMAIN source.props :
            /\ source.props[i].name = rendered.calls[k].name
            /\ source.props[i].kind = "throws"}
FailedStage ==
    IF source.fail \in {"compile", "run", "to_object"} THEN source.fail
    ELSE IF source.fail = "none" /\ rendered # None /\ ThrowingCall # {} THEN "call"
    ELSE "none"
FailedName == rendered.calls[CHOOSE k \in ThrowingCall : TRUE].name
FailedPlace == IF FailedStage = "call" THEN FailedName ELSE FailedStage

\* The message the claim describes: label, engine exception, optional stack.
MessageWith(label) ==
    label \o <<": ">> \o ExceptionOf(FailedPlace)
          \o (IF source.stack THEN <<"\nStack: ">> \o StackOf(FailedPlace) ELSE <<>>)

ClaimedLabels ==
    {<<"Script compilation failed">>, <<"Script execution failed">>}
        \cup {<<"Error calling function '", n, "'">> : n \in PropNames}

StageLabel ==
    CASE FailedStage = "compile" -> <<"Script compilation failed">>
      [] FailedStage = "run" -> <<"Script execution failed">>
      [] FailedStage = "to_object" -> <<"Result is not an object">>
      [] FailedStage = "call" -> <<"Error calling function '", FailedName, "'">>

\* C6 as stated: a failure at compile, run, to_object or a function call
\* yields V8Exception whose message starts with one of the labels "Script
\* compilation failed", "Script execution failed", "Error calling function
\* '<name>'", followed by the exception string and the stack when present.
C6_FailureLabelIsOneOfThree ==
    (rendered # None /\ FailedStage # "none") =>
        \E label \in ClaimedLabels : rendered.result = V8ExceptionError(MessageWith(label))

\* C6 amended: the label of a to_object failure is "Result is not an
\* object"; compile, run and call failures carry the three labels of the
\* claim; the label is followed by ": ", the engine's exception string and,
\* when a stack trace is available, "\nStack: " and the stack; the result is
\* never a rendered string.
C6_FailureLabelPerStage ==
    (rendered # None /\ FailedStage # "none") =>
        /\ rendered.result = V8ExceptionError(MessageWith(StageLabel))
        /\ rendered.result.tag # "Ok"

C6_Witness ==
    /\ rendered # None
    /\ FailedStage = "to_object"
    /\ source.stack
    /\ rendered.result.tag = "V8ExceptionError"
    /\ Head(rendered.result.msg) = "Result is not an object"

(***************************************************************************)
(* IndependentSpec: compile_independent_bundles, one page group per loop   *)
(* iteration.  Paths, messages and emitted scripts are strings.  The       *)
(* bundler is a black box: the text it writes for the wrapper is one of    *)
(* ScriptTexts.  Path::is_absolute is the Unix one.                        *)
(***************************************************************************)
MaxPageGroups == 2    \* page groups handed to compile_independent_bundles
DiagnosticChars == 50 \* characters of each end of the script in the diagnostic

Min(a, b) == IF a < b THEN a ELSE b
Max(a, b) == IF a > b THEN a ELSE b

\* str::starts_with, str::contains
starts_with(s, prefix) ==
    Len(s) >= Len(prefix) /\ SubSeq(s, 1, Len(prefix)) = prefix
contains(s, sub) ==
    \E i \in 1..(Len(s) - Len(sub) + 1) : SubSeq(s, i, i + Len(sub) - 1) = sub

\* chars().take(n) and chars().rev().take(n).rev()
take(s, n) == SubSeq(s, 1, Min(n, Len(s)))
take_last(s, n) == SubSeq(s, Max(1, Len(s) - n + 1), Len(s))

\* Path::is_absolute
is_absolute(path) == starts_with(path, "/")

IndependentGroups ==
    {<<"/app/layout.tsx", "/app/page.tsx">>,
     <<"/app/home.tsx">>,
     <<"/app/layout.tsx", "pages/detail.tsx", "./other.tsx">>}

ScriptTexts ==
    {"(function(){return {Index:()=>1}})();\n//# sourceMappingURL=entrypoint.js.map",
     "(function(exports){\"use strict\";exports.Index=function(){return render(Entrypoint)};return exports})({});",
     "var a=1;",
     "\"use strict\";\n(function (exports) {\n  exports.Index = () => renderToString(Entrypoint);\n  return exports;\n})({});\n//# sourceMappingURL=entrypoint.js.map"}

PyIOError == [tag |-> "PyIOError"]
PyRuntimeError(msg) == [tag |-> "PyRuntimeError", msg |-> msg]
PyValueError(msg) == [tag |-> "PyValueError", msg |-> msg]
PyFileNotFoundError(path) == [tag |-> "PyFileNotFoundError", path |-> path]

\* The map_err of compile_independent_bundles over BundleError.
PyErrOf(e) ==
    CASE e.tag = "IoError" -> PyIOError
      [] e.tag = "BundlingError" -> PyRuntimeError(<<"Error during bundling">>)
      [] e.tag = "OutputError" -> PyRuntimeError(e.msg)
      [] e.tag = "FileNotFound" -> PyFileNotFoundError(e.path)
      [] e.tag = "InvalidInput" -> PyValueError(e.msg)

\* validate_absolute_paths: the error message, or Ok.
validate_absolute_paths(path_group) ==
    IF \E j \in DOMAIN path_group : ~is_absolute(path_group[j])
    THEN LET first == CHOOSE j \in DOMAIN path_group :
                          /\ ~is_absolute(path_group[j])
                          /\ \A k \in 1..(j - 1) : is_absolute(path_group[k])
         IN [tag |-> "Err",
             msg |-> "All paths must be absolute. Relative path found: " \o path_group[first]
                     \o ". The entrypoint is written to a temporary directory that won't properly resolve relative paths."]
    ELSE Ok(<<>>)

\* The variant of create_entrypoint that writes the wrapper unchecked.
create_entrypoint_unvalidated(path_group, is_server, live_reload_import, fs) ==
    IF fs = "create"
    THEN [written |-> FALSE, result |-> PyIOError]
    ELSE [written |-> TRUE,
          result |-> Ok([path |-> [dir |-> "/tmp/entry", name |-> <<"entrypoint">>, exts |-> <<"jsx">>],
                         content |-> build_entrypoint(path_group, is_server, live_reload_import)])]

\* create_entrypoint: validate, then write entrypoint.jsx to the temp dir.
create_entrypoint(path_group, is_server, live_reload_import, fs) ==
    LET valid == validate_absolute_paths(path_group)
    IN IF valid.tag = "Err"
       THEN [written |-> FALSE, result |-> PyValueError(valid.msg)]
       ELSE IF fs = "create"
       THEN [written |-> FALSE, result |-> PyIOError]
       ELSE [written |-> TRUE,
             result |-> Ok([path |-> [dir |-> "/tmp/entry", name |-> <<"entrypoint">>, exts |-> <<"jsx">>],
                            content |-> build_entrypoint(path_group, is_server, live_reload_import)])]

\* process_output_directory: the whole read_dir loop.
RECURSIVE process_output_directory(_)
process_output_directory(b) ==
    IF b.pc # "walk" THEN b
    ELSE IF b.remaining = {}
    THEN [b EXCEPT !.pc = "done",
                   !.result = Ok([entrypoints |-> b.entrypoints, extras |-> b.extras])]
    ELSE process_output_directory(
            process_output_entry(b, CHOOSE path \in b.remaining : TRUE))

\* The variant of the SSR wrapping without the newlines around the script.
ssr_wrap_on_one_line(compiled_file) ==
    "var SSR = (() => { return " \o compiled_file \o " })();"

\* The format! of the SSR variable assignment.
ssr_wrap(compiled_file) ==
    "var SSR = (() => {\nreturn " \o compiled_file \o "\n})();"

\* The special handling of SSR mode: the preamble check, then the wrapping.
ssr_post_process(compiled_file) ==
    IF ~starts_with(compiled_file, "(function(")
    THEN LET start_chars == take(compiled_file, DiagnosticChars)
             end_chars == take_last(compiled_file, DiagnosticChars)
         IN PyRuntimeError(
                "Compiled file does not match expected IIFE format: (function() { ... })()\n\nBeginning 50 chars: "
                \o start_chars \o "\nEnding 50 chars: " \o end_chars)
    ELSE Ok(ssr_wrap(compiled_file))

IdleIndependent ==
    [pc |-> "idle", paths |-> <<>>, is_ssr |-> FALSE, i |-> 1,
     output_files |-> <<>>, sourcemap_files |-> <<>>, emitted |-> <<>>, maps |-> <<>>,
     temp_dirs |-> {}, written |-> {}, bundled |-> {}, result |-> None]

\* Leaving the loop: by an error, or after the last group with both lists.
independent_fail(s, err) ==
    [s EXCEPT !.pc = "done", !.result = err]
independent_continue(s) ==
    IF s.i > Len(s.paths)
    THEN [s EXCEPT !.pc = "done", !.result = Ok(<<s.output_files, s.sourcemap_files>>)]
    ELSE [s EXCEPT !.pc = "loop"]

\* One iteration of the loop of compile_independent_bundles over paths.
\* fs and world are what the file system and the bundler do, text is the
\* script the bundler writes.
independent_group(s, fs, world, text) ==
    LET i == s.i
        path_group == s.paths[i]
    IN IF fs = "temp_dir" THEN independent_fail(s, PyIOError)
       ELSE
       LET s1 == [s EXCEPT !.temp_dirs = @ \cup {i}]
           entry == create_entrypoint(path_group, s.is_ssr, "/app/live_reload.ts", fs)
       IN IF entry.result.tag # "Ok" THEN independent_fail(s1, entry.result)
          ELSE
          LET bundle_mode == IF s.is_ssr THEN "SingleServer" ELSE "SingleClient"
              b == process_output_directory(
                       bundle_common([IdleBundle EXCEPT !.fn = "bundle_common"],
                                     <<entry.result.value>>, bundle_mode, world))
              s2 == [s1 EXCEPT !.written = @ \cup {i},
                               !.bundled = IF b.bundler_invoked THEN @ \cup {i} ELSE @]
          IN IF b.result.tag # "Ok" THEN independent_fail(s2, PyErrOf(b.result))
             ELSE IF Cardinality(DOMAIN b.result.value.entrypoints) # 1
             THEN independent_fail(s2, PyRuntimeError(
                      <<"Expected 1 bundle result, got ",
                        Cardinality(DOMAIN b.result.value.entrypoints)>>))
             ELSE
             LET bundle_result == b.result.value.entrypoints[
                                      CHOOSE k \in DOMAIN b.result.value.entrypoints : TRUE]
                 sourcemap_file == IF bundle_result.map = None THEN <<>> ELSE bundle_result.map.v
                 s3 == [s2 EXCEPT !.emitted = Append(@, text),
                                  !.maps = Append(@, bundle_result.map)]
                 compiled_file == IF s.is_ssr THEN ssr_post_process(text) ELSE Ok(text)
             IN IF compiled_file.tag # "Ok" THEN independent_fail(s3, compiled_file)
                ELSE independent_continue(
                        [s3 EXCEPT !.output_files = Append(@, compiled_file.value),
                                   !.sourcemap_files = Append(@, sourcemap_file),
                                   !.i = i + 1])

IndependentUnchanged ==
    UNCHANGED <<source, params, rendered, INIT_PLATFORM, stdout_lock, call, bundle,
                source_map, lexer, more_vars>>

\* compile_independent_bundles is called.
CompileIndependentBundles ==
    /\ independent.pc = "idle"
    /\ \E n \in 0..MaxPageGroups :
       \E paths \in [1..n -> IndependentGroups], is_ssr \in BOOLEAN :
          independent' = independent_continue(
                            [IdleIndependent EXCEPT !.paths = paths, !.is_ssr = is_ssr])
    /\ IndependentUnchanged

\* The loop body runs for the next group.
IndependentGroup ==
    /\ independent.pc = "loop"
    /\ LET entry_path == [dir |-> "/tmp/entry", name |-> <<"entrypoint">>, exts |-> <<"jsx">>]
           inputs == <<[path |-> entry_path,
                        content |-> build_entrypoint(independent.paths[independent.i],
                                                     independent.is_ssr, "/app/live_reload.ts")]>>
           failed == [exists |-> {}, io |-> "none", bundler |-> None]
       IN \/ \E fs \in {"temp_dir", "create"} :
             independent' = independent_group(independent, fs, failed, "")
          \/ \E world \in Worlds(inputs, {{entry_path}}), text \in ScriptTexts :
             independent' = independent_group(independent, "ok", world, text)
    /\ IndependentUnchanged

IndependentInit ==
    /\ source = None
    /\ params = None
    /\ rendered = None
    /\ INIT_PLATFORM = [state |-> "incomplete", owner |-> None]
    /\ stdout_lock = None
    /\ call = IdleCalls
    /\ bundle = IdleRender
    /\ independent = IdleIndependent
    /\ source_map = [pc |-> "idle"]
    /\ lexer = [pc |-> "idle"]
    /\ MoreIdle

IndependentNext ==
    \/ CompileIndependentBundles
    \/ IndependentGroup

IndependentSpec == IndependentInit /\ [][IndependentNext]_vars

(***************************************************************************)
(* Claims about compile_independent_bundles.                               *)
(***************************************************************************)
IndependentDone == independent.pc = "done"

\* The groups whose bundle pass produced an entry script.
Emitted == DOMAIN independent.emitted

\* C12: in server mode compile_independent_bundles returns, for each
\* group, exactly "var SSR = (() => {" newline "return " + emitted script +
\* newline "})();" when the emitted script starts with "(function("; if it
\* does not, the whole call fails with a diagnostic containing the first
\* and the last 50 characters of the emitted script and returns no scripts;
\* in client mode the emitted script is returned unchanged.
C12_ServerScriptsAreWrapped ==
    IndependentDone =>
        /\ independent.result.tag = "Ok" =>
            /\ Len(independent.result.value[1]) = Len(independent.paths)
            /\ \A i \in DOMAIN independent.paths :
                independent.result.value[1][i] =
                    IF independent.is_ssr
                    THEN "var SSR = (() => {\nreturn " \o independent.emitted[i] \o "\n})();"
                    ELSE independent.emitted[i]
            /\ independent.is_ssr =>
                \A i \in Emitted : starts_with(independent.emitted[i], "(function(")
        /\ (independent.is_ssr
              /\ \E i \in Emitted : ~starts_with(independent.emitted[i], "(function("))
            => LET i == Len(independent.emitted)
                   script == independent.emitted[i]
               IN /\ independent.result.tag = "PyRuntimeError"
                  /\ contains(independent.result.msg, SubSeq(script, 1, Min(50, Len(script))))
                  /\ contains(independent.result.msg,
                              SubSeq(script, Max(1, Len(script) - 49), Len(script)))
                  /\ \A j \in 1..(i - 1) : starts_with(independent.emitted[j], "(function(")

C12_Witness ==
    /\ IndependentDone
    /\ independent.is_ssr
    /\ independent.result.tag = "Ok"
    /\ Len(independent.paths) = MaxPageGroups
    /\ independent.emitted[1] # independent.emitted[2]

\* The groups that contain a path that is not absolute.
RelativeGroups ==
    {i \in DOMAIN independent.paths :
        \E j \in DOMAIN independent.paths[i] :
            SubSeq(independent.paths[i][j], 1, 1) # "/"}

\* C13 as stated: whenever some path of some group is not absolute, the
\* call fails with an invalid-value error naming an offending path.
C13_RelativePathAlwaysInvalidValue ==
    (IndependentDone /\ RelativeGroups # {}) =>
        /\ independent.result.tag = "PyValueError"
        /\ \E i \in RelativeGroups : \E j \in DOMAIN independent.paths[i] :
              /\ SubSeq(independent.paths[i][j], 1, 1) # "/"
              /\ contains(independent.result.msg, independent.paths[i][j])

\* C13, amended: a call with a path that is not absolute never succeeds and
\* never writes or bundles the wrapper of a group with such a path; it
\* fails with an invalid-value error naming the offending path as soon as
\* the loop reaches the first such group and has its temporary directory,
\* unless an earlier group has already failed; no lists are returned.
C13_RelativePathIsInvalidValue ==
    /\ \A i \in RelativeGroups :
          i \notin independent.written /\ i \notin independent.bundled
    /\ (IndependentDone /\ RelativeGroups # {}) =>
          /\ independent.result.tag # "Ok"
          /\ independent.result.tag = "PyValueError" =>
                \E i \in RelativeGroups :
                    /\ \A k \in RelativeGroups : i <= k
                    /\ independent.i = i
                    /\ \E j \in DOMAIN independent.paths[i] :
                        /\ SubSeq(independent.paths[i][j], 1, 1) # "/"
                        /\ contains(independent.result.msg, independent.paths[i][j])
    /\ (IndependentDone /\ independent.i \in RelativeGroups
            /\ independent.i \in independent.temp_dirs) =>
          independent.result.tag = "PyValueError"

C13_Witness ==
    /\ IndependentDone
    /\ independent.result.tag = "PyValueError"
    /\ independent.i = MaxPageGroups
    /\ independent.written = 1..(MaxPageGroups - 1)
    /\ independent.bundled = 1..(MaxPageGroups - 1)

(***************************************************************************)
(* SourceMapSpec: VLQDecoder::parse_vlq and SourceMapParser::parse_mapping *)
(* as functions of their input string.  Strings are strings; the i-th      *)
(* character of s is SubSeq(s, i, i).  In every input of the model a       *)
(* decoded value stays below 2^31, so the u32 arithmetic of parse_vlq is   *)
(* exact.                                                                  *)
(***************************************************************************)
MaxFields == 2          \* integers in a sequence that is encoded and decoded
MaxMappingGroups == 3   \* groups in a mappings string

sign_bit_mask == 1
continuation_bit_mask == 32
continuation_value_mask == [mask |-> 31, right_padding |-> 0]
original_value_mask == [mask |-> 30, right_padding |-> 1]

\* u32 operators: &, >>, <<
RECURSIVE BitAnd(_, _)
BitAnd(a, b) ==
    IF a = 0 \/ b = 0 THEN 0
    ELSE (a % 2) * (b % 2) + 2 * BitAnd(a \div 2, b \div 2)
Shr(x, n) == x \div (2 ^ n)
Shl(x, n) == x * (2 ^ n)

\* VLQDecoder::generate_base64_alphabet: A-Z, a-z, 0-9, '+', '/', each
\* inserted with the number of characters inserted before it.
Base64Chars == "ABCDEFGHIJKLMNOPQRSTUVWXYZabcdefghijklmnopqrstuvwxyz0123456789+/"
generate_base64_alphabet ==
    [c \in {SubSeq(Base64Chars, i, i) : i \in 1..Len(Base64Chars)} |->
        (CHOOSE i \in 1..Len(Base64Chars) : SubSeq(Base64Chars, i, i) = c) - 1]

\* The variant of the loop of parse_vlq that takes 4 bits of every sextet.
RECURSIVE parse_sextets_four_bits(_, _, _, _, _, _)
parse_sextets_four_bits(sextets, final_values, current_value, current_bit_offset, current_sign_value, is_continuation) ==
    IF sextets = <<>> THEN final_values
    ELSE LET sextet == Head(sextets)
             sign == IF ~is_continuation
                     THEN (IF BitAnd(sextet, sign_bit_mask) # 0 THEN -1 ELSE 1)
                     ELSE current_sign_value
             value_mask == original_value_mask
             value == current_value
                        + Shl(Shr(BitAnd(sextet, value_mask.mask), value_mask.right_padding),
                              current_bit_offset)
             continues == BitAnd(sextet, continuation_bit_mask) # 0
         IN IF ~continues
            THEN parse_sextets_four_bits(Tail(sextets), Append(final_values, sign * value),
                                         0, 0, 1, FALSE)
            ELSE parse_sextets_four_bits(Tail(sextets), final_values, value,
                                         current_bit_offset + 4, sign, TRUE)

\* The loop of parse_vlq over the sextets.
RECURSIVE parse_sextets(_, _, _, _, _, _)
parse_sextets(sextets, final_values, current_value, current_bit_offset, current_sign_value, is_continuation) ==
    IF sextets = <<>> THEN final_values
    ELSE LET sextet == Head(sextets)
             sign == IF ~is_continuation
                     THEN (IF BitAnd(sextet, sign_bit_mask) # 0 THEN -1 ELSE 1)
                     ELSE current_sign_value
             value_mask == IF ~is_continuation THEN original_value_mask
                           ELSE continuation_value_mask
             value == current_value
                        + Shl(Shr(BitAnd(sextet, value_mask.mask), value_mask.right_padding),
                              current_bit_offset)
             offset == current_bit_offset + (IF is_continuation THEN 5 ELSE 4)
             continues == BitAnd(sextet, continuation_bit_mask) # 0
         IN IF ~continues
            THEN parse_sextets(Tail(sextets), Append(final_values, sign * value),
                               0, 0, 1, FALSE)
            ELSE parse_sextets(Tail(sextets), final_values, value, offset, sign, TRUE)

\* VLQDecoder::parse_vlq: the integers, or the panic of unwrap() on a
\* character that is not in the alphabet.
parse_vlq(vlq_value) ==
    IF \E i \in 1..Len(vlq_value) :
          SubSeq(vlq_value, i, i) \notin DOMAIN generate_base64_alphabet
    THEN Panic
    ELSE Ok(parse_sextets([i \in 1..Len(vlq_value) |->
                              generate_base64_alphabet[SubSeq(vlq_value, i, i)]],
                          <<>>, 0, 0, 1, FALSE))

\* MapMetadata::new
MapMetadata(line_number, column_number) ==
    [line_number |-> line_number, column_number |-> column_number,
     source_index |-> None, source_line |-> None,
     source_column |-> None, symbol_index |-> None]

Err(msg) == [tag |-> "Err", msg |-> msg]

\* The variant of vlq_to_source_metadata that reads a group of any other
\* length as a group of its first field.
vlq_to_source_metadata_lenient(line, component) ==
    LET parsed == parse_vlq(component)
    IN IF parsed = Panic THEN Panic
       ELSE LET vlq_values == parsed.value
            IN IF Len(vlq_values) \in {4, 5}
               THEN Ok([MapMetadata(line, vlq_values[1]) EXCEPT
                          !.source_index = Some(vlq_values[2]),
                          !.source_line = Some(vlq_values[3]),
                          !.source_column = Some(vlq_values[4]),
                          !.symbol_index = IF Len(vlq_values) = 5
                                           THEN Some(vlq_values[5]) ELSE None])
               ELSE Ok(MapMetadata(line, IF vlq_values = <<>> THEN 0 ELSE vlq_values[1]))

\* SourceMapParser::vlq_to_source_metadata
vlq_to_source_metadata(line, component) ==
    LET parsed == parse_vlq(component)
    IN IF parsed = Panic THEN Panic
       ELSE LET vlq_values == parsed.value
            IN IF Len(vlq_values) = 1
               THEN Ok(MapMetadata(line, vlq_values[1]))
               ELSE IF Len(vlq_values) \in {4, 5}
               THEN Ok([MapMetadata(line, vlq_values[1]) EXCEPT
                          !.source_index = Some(vlq_values[2]),
                          !.source_line = Some(vlq_values[3]),
                          !.source_column = Some(vlq_values[4]),
                          !.symbol_index = IF Len(vlq_values) = 5
                                           THEN Some(vlq_values[5]) ELSE None])
               ELSE Err(<<"VLQ value should have 1, 4, or 5 components. Got ",
                          Len(vlq_values), " instead: ", vlq_values>>)

\* merge_and_update_attribute, update_state_attribute
merge_and_update_attribute(current, state) ==
    IF current # None /\ state # None THEN Some(current.v + state.v) ELSE current
update_state_attribute(state, current) ==
    IF current # None THEN current ELSE state

\* The variant of the merge whose column keeps accumulating across lines.
merge_relative_metadatas_across_lines(current_metadata, metadata_state) ==
    LET merged ==
            [line_number |-> current_metadata.line_number,
             column_number |-> IF metadata_state.line_number >= 0
                               THEN current_metadata.column_number + metadata_state.column_number
                               ELSE current_metadata.column_number,
             source_index |-> merge_and_update_attribute(current_metadata.source_index,
                                                         metadata_state.source_index),
             source_line |-> merge_and_update_attribute(current_metadata.source_line,
                                                        metadata_state.source_line),
             source_column |-> merge_and_update_attribute(current_metadata.source_column,
                                                          metadata_state.source_column),
             symbol_index |-> merge_and_update_attribute(current_metadata.symbol_index,
                                                         metadata_state.symbol_index)]
    IN [metadata |-> merged,
        state |-> [line_number |-> merged.line_number,
                   column_number |-> merged.column_number,
                   source_index |-> update_state_attribute(metadata_state.source_index, merged.source_index),
                   source_line |-> update_state_attribute(metadata_state.source_line, merged.source_line),
                   source_column |-> update_state_attribute(metadata_state.source_column, merged.source_column),
                   symbol_index |-> update_state_attribute(metadata_state.symbol_index, merged.symbol_index)]]

\* SourceMapParser::merge_relative_metadatas: the merged metadata and the
\* updated rolling state.
merge_relative_metadatas(current_metadata, metadata_state) ==
    LET merged ==
            [line_number |-> current_metadata.line_number,
             column_number |-> IF metadata_state.line_number = current_metadata.line_number
                               THEN current_metadata.column_number + metadata_state.column_number
                               ELSE current_metadata.column_number,
             source_index |-> merge_and_update_attribute(current_metadata.source_index,
                                                         metadata_state.source_index),
             source_line |-> merge_and_update_attribute(current_metadata.source_line,
                                                        metadata_state.source_line),
             source_column |-> merge_and_update_attribute(current_metadata.source_column,
                                                          metadata_state.source_column),
             symbol_index |-> merge_and_update_attribute(current_metadata.symbol_index,
                                                         metadata_state.symbol_index)]
    IN [metadata |-> merged,
        state |-> [line_number |-> merged.line_number,
                   column_number |-> merged.column_number,
                   source_index |-> update_state_attribute(metadata_state.source_index, merged.source_index),
                   source_line |-> update_state_attribute(metadata_state.source_line, merged.source_line),
                   source_column |-> update_state_attribute(metadata_state.source_column, merged.source_column),
                   symbol_index |-> update_state_attribute(metadata_state.symbol_index, merged.symbol_index)]]

\* str::split
RECURSIVE split(_, _)
split(s, sep) ==
    IF \E i \in 1..Len(s) : SubSeq(s, i, i) = sep
    THEN LET i == CHOOSE i \in 1..Len(s) :
                     /\ SubSeq(s, i, i) = sep
                     /\ \A j \in 1..(i - 1) : SubSeq(s, j, j) # sep
         IN <<SubSeq(s, 1, i - 1)>> \o split(SubSeq(s, i + 1, Len(s)), sep)
    ELSE <<s>>

\* component.trim().is_empty()
trim_is_empty(component) ==
    \A i \in 1..Len(component) : SubSeq(component, i, i) \in {" ", "\t", "\n"}

\* The variant of the key that keeps the parser's 0-based line and column.
mapping_key_zero_based(metadata) ==
    <<metadata.line_number, metadata.column_number>>

\* The key of parsed_mappings.insert: 1-indexed line and column.
mapping_key(metadata) ==
    <<metadata.line_number + 1, metadata.column_number + 1>>

\* mappings.split(';').enumerate() crossed with split(','): the components
\* in the order of the two loops, each with its line.
Components(mappings) ==
    LET lines == split(mappings, ";")
    IN Flatten([l \in DOMAIN lines |->
                  LET cs == split(lines[l], ",")
                  IN [k \in DOMAIN cs |-> [line |-> l - 1, component |-> cs[k]]]])

\* The body of the two loops of parse_mapping from the i-th component on.
RECURSIVE parse_components(_, _, _, _)
parse_components(items, i, parsed_mappings, metadata_state) ==
    IF i > Len(items) THEN Ok(parsed_mappings)
    ELSE IF trim_is_empty(items[i].component)
    THEN parse_components(items, i + 1, parsed_mappings, metadata_state)
    ELSE LET metadata == vlq_to_source_metadata(items[i].line, items[i].component)
         IN IF metadata.tag # "Ok" THEN metadata
            ELSE LET m == merge_relative_metadatas(metadata.value, metadata_state)
                 IN parse_components(items, i + 1,
                        Insert(parsed_mappings, mapping_key(m.metadata), m.metadata),
                        m.state)

\* SourceMapParser::parse_mapping
parse_mapping(mappings) ==
    parse_components(Components(mappings), 1, EmptyMap, MapMetadata(-1, -1))

\* The standard base64-VLQ encoding, which produces the strings that are
\* decoded: sign in bit 0 of the first sextet, 4 value bits in the first
\* sextet, 5 in each continuation, least-significant first, bit 5 set on
\* every sextet but the last of a value.
Base64Char(sextet) == SubSeq(Base64Chars, sextet + 1, sextet + 1)
RECURSIVE encode_continuation(_)
encode_continuation(rest) ==
    IF rest = 0 THEN ""
    ELSE Base64Char((rest % 32) + (IF rest \div 32 > 0 THEN 32 ELSE 0))
            \o encode_continuation(rest \div 32)
encode_value(v) ==
    LET magnitude == IF v < 0 THEN -v ELSE v
        first == (magnitude % 16) * 2 + (IF v < 0 THEN 1 ELSE 0)
    IN Base64Char(first + (IF magnitude \div 16 > 0 THEN 32 ELSE 0))
          \o encode_continuation(magnitude \div 16)
RECURSIVE encode_vlq(_)
encode_vlq(values) ==
    IF values = <<>> THEN "" ELSE encode_value(Head(values)) \o encode_vlq(Tail(values))

\* The integers that are encoded: small ones, the ends of the one-, two-
\* and three-sextet ranges, and the largest 31-bit magnitudes.
VlqValues == {0, 1, -1, 15, -15, 16, -16, 511, -512, 2147483647, -2147483647}
RECURSIVE SeqsUpTo(_, _)
SeqsUpTo(S, n) ==
    IF n = 0 THEN {<<>>}
    ELSE LET shorter == SeqsUpTo(S, n - 1)
         IN shorter \cup {Append(q, x) : q \in {r \in shorter : Len(r) = n - 1}, x \in S}

\* Strings handed to parse_vlq that are no encoding of an integer sequence.
RawVlqTexts == {"!", "A!C", "AA==", "C C", "g", "Ag"}

\* The groups of a mappings string, each with the deltas it encodes:
\* an empty group, 1, 4 and 5 fields, 2 fields, and a group with a
\* character outside the alphabet.
MappingGroups ==
    {[text |-> encode_vlq(f), fields |-> f] :
        f \in {<<>>, <<1>>, <<2, 1, -1, 1>>, <<1, 0, 1, 1, 1>>, <<1, 1>>}}
    \cup {[text |-> "!", fields |-> <<>>]}

\* The mappings string: the groups joined by their separators.
RECURSIVE join_groups(_, _)
join_groups(groups, seps) ==
    IF Len(groups) = 1 THEN groups[1].text
    ELSE groups[1].text \o seps[1] \o join_groups(Tail(groups), Tail(seps))

IdleSourceMap == [pc |-> "idle"]

SourceMapInputs ==
    {[pc |-> "input", fn |-> "parse_vlq", values |-> v, groups |-> <<>>, seps |-> <<>>,
      text |-> encode_vlq(v), result |-> None] : v \in SeqsUpTo(VlqValues, MaxFields)}
    \cup {[pc |-> "input", fn |-> "parse_vlq_raw", values |-> <<>>, groups |-> <<>>,
           seps |-> <<>>, text |-> t, result |-> None] : t \in RawVlqTexts}
    \cup UNION {{[pc |-> "input", fn |-> "parse_mapping", values |-> <<>>, groups |-> g,
                  seps |-> sp, text |-> join_groups(g, sp), result |-> None] :
                    g \in [1..n -> MappingGroups], sp \in [1..(n - 1) -> {",", ";"}]} :
                n \in 1..MaxMappingGroups}

SourceMapInit ==
    /\ source = None
    /\ params = None
    /\ rendered = None
    /\ INIT_PLATFORM = [state |-> "incomplete", owner |-> None]
    /\ stdout_lock = None
    /\ call = IdleCalls
    /\ bundle = IdleRender
    /\ independent = [pc |-> "idle"]
    /\ source_map \in SourceMapInputs
    /\ lexer = [pc |-> "idle"]
    /\ MoreIdle

SourceMapUnchanged ==
    UNCHANGED <<source, params, rendered, INIT_PLATFORM, stdout_lock, call, bundle,
                independent, lexer, more_vars>>

\* VLQDecoder::parse_vlq is applied to the string.
ParseVlq ==
    /\ source_map.pc = "input"
    /\ source_map.fn \in {"parse_vlq", "parse_vlq_raw"}
    /\ source_map' = [source_map EXCEPT !.pc = "done", !.result = parse_vlq(source_map.text)]
    /\ SourceMapUnchanged

\* parse_source_map_mappings: SourceMapParser::parse_mapping is applied.
ParseMapping ==
    /\ source_map.pc = "input"
    /\ source_map.fn = "parse_mapping"
    /\ source_map' = [source_map EXCEPT !.pc = "done", !.result = parse_mapping(source_map.text)]
    /\ SourceMapUnchanged

SourceMapNext ==
    \/ ParseVlq
    \/ ParseMapping

SourceMapSpec == SourceMapInit /\ [][SourceMapNext]_vars

(***************************************************************************)
(* Claims about the source-map parser.  The reference values are computed  *)
(* from the groups the mappings string was joined from, not by the parser. *)
(***************************************************************************)
MappingDone == source_map.pc = "done" /\ source_map.fn = "parse_mapping"
VlqDone == source_map.pc = "done" /\ source_map.fn \in {"parse_vlq", "parse_vlq_raw"}

GroupIndices == DOMAIN source_map.groups
FieldsOf(k) == source_map.groups[k].fields
NonEmptyGroup(k) == source_map.groups[k].text # ""
UnknownCharacter(text) ==
    \E i \in 1..Len(text) : SubSeq(text, i, i) \notin DOMAIN generate_base64_alphabet
BadFieldCount(k) ==
    /\ NonEmptyGroup(k)
    /\ ~UnknownCharacter(source_map.groups[k].text)
    /\ Len(FieldsOf(k)) \notin {1, 4, 5}

\* L: the number of ';' before the k-th group.
LineOf(k) == Cardinality({j \in 1..(k - 1) : source_map.seps[j] = ";"})

RECURSIVE SumField(_, _)
SumField(f, ks) ==
    IF ks = {} THEN 0
    ELSE LET k == CHOOSE k \in ks : TRUE
         IN FieldsOf(k)[f] + SumField(f, ks \ {k})

\* The absolute generated column of the k-th group: the sum of the column
\* deltas of the groups of its line up to it.
AbsoluteColumn(k) ==
    SumField(1, {j \in 1..k : Len(FieldsOf(j)) >= 1 /\ LineOf(j) = LineOf(k)})

\* The absolute value of field f (2..5) of the k-th group: the sum of the
\* deltas of all groups up to it that carry the field.
AbsoluteField(k, f) ==
    IF Len(FieldsOf(k)) >= f
    THEN Some(SumField(f, {j \in 1..k : Len(FieldsOf(j)) >= f}))
    ELSE None

Materialized(k) ==
    [line_number |-> LineOf(k), column_number |-> AbsoluteColumn(k),
     source_index |-> AbsoluteField(k, 2), source_line |-> AbsoluteField(k, 3),
     source_column |-> AbsoluteField(k, 4), symbol_index |-> AbsoluteField(k, 5)]

\* C14: parse_mapping materializes absolute values by delta accumulation:
\* the generated column accumulates only within one generated line, while
\* source_index, source_line, source_column and symbol_index accumulate
\* over the whole string, across ';' and across groups without the field.
C14_DeltasAccumulate ==
    (MappingDone /\ source_map.result.tag = "Ok") =>
        \A k \in GroupIndices :
            (NonEmptyGroup(k)
               /\ \A j \in GroupIndices :
                    (j > k /\ NonEmptyGroup(j) /\ LineOf(j) = LineOf(k))
                        => AbsoluteColumn(j) # AbsoluteColumn(k))
            => \E key \in DOMAIN source_map.result.value :
                  source_map.result.value[key] = Materialized(k)

C14_Witness ==
    /\ MappingDone
    /\ source_map.result.tag = "Ok"
    /\ Len(source_map.groups) = MaxMappingGroups
    /\ Len(FieldsOf(1)) = 5
    /\ Len(FieldsOf(2)) \in {1, 4}
    /\ Len(FieldsOf(MaxMappingGroups)) = 5
    /\ \E j \in DOMAIN source_map.seps : source_map.seps[j] = ";"
    /\ \E key \in DOMAIN source_map.result.value :
          /\ key[1] = 2
          /\ source_map.result.value[key].symbol_index = Some(2)

\* C15: every entry of the result is keyed by (L+1, C+1), L the number of
\* ';' before its group and C its absolute 0-based generated column, which
\* the value stores; empty groups add no entry but still advance L.
C15_KeysAreOneBased ==
    (MappingDone /\ source_map.result.tag = "Ok") =>
        /\ \A key \in DOMAIN source_map.result.value :
              /\ key = <<source_map.result.value[key].line_number + 1,
                         source_map.result.value[key].column_number + 1>>
              /\ \E k \in GroupIndices :
                    /\ NonEmptyGroup(k)
                    /\ key = <<LineOf(k) + 1, AbsoluteColumn(k) + 1>>
        /\ \A k \in GroupIndices :
              NonEmptyGroup(k) =>
                 <<LineOf(k) + 1, AbsoluteColumn(k) + 1>> \in DOMAIN source_map.result.value

C15_Witness ==
    /\ MappingDone
    /\ source_map.result.tag = "Ok"
    /\ Len(source_map.groups) = MaxMappingGroups
    /\ ~NonEmptyGroup(1)
    /\ ~NonEmptyGroup(2)
    /\ source_map.seps[1] = ";"
    /\ source_map.seps[2] = ";"
    /\ DOMAIN source_map.result.value = {<<3, 2>>}

\* The first group that parse_mapping cannot turn into an entry.
Offending(k) == NonEmptyGroup(k) /\ Len(FieldsOf(k)) \notin {1, 4, 5}
FirstOffending(k) == Offending(k) /\ \A j \in 1..(k - 1) : ~Offending(j)
FieldCountError(k) ==
    Err(<<"VLQ value should have 1, 4, or 5 components. Got ",
          Len(FieldsOf(k)), " instead: ", FieldsOf(k)>>)

C17_DecodeInvertsEncode ==
    (source_map.pc = "done" /\ source_map.fn = "parse_vlq") =>
        source_map.result = Ok(source_map.values)

C17_Witness ==
    /\ source_map.pc = "done"
    /\ source_map.fn = "parse_vlq"
    /\ Len(source_map.values) = MaxFields
    /\ source_map.values[1] = -2147483647
    /\ source_map.values[MaxFields] = 511
    /\ source_map.result.tag = "Ok"

\* C18: input with a character outside the 64-symbol alphabet is a decode
\* error: parse_vlq, and parse_mapping through it, reports the failure to
\* the caller as an error outcome and produces no integers or mappings.
C18_UnknownCharacterIsDecodeError ==
    /\ (VlqDone /\ UnknownCharacter(source_map.text)) => source_map.result.tag = "Err"
    /\ (MappingDone /\ \E k \in GroupIndices : UnknownCharacter(source_map.groups[k].text))
          => source_map.result.tag = "Err"

(***************************************************************************)
(* LexerSpec: lexers::strip_js_comments as a function of its input.  The   *)
(* input is a JavaScript source made of whole lexical tokens (code, string *)
(* literals, line comments with their newline, block comments), so that    *)
(* its string literals and its comments are known from its construction.   *)
(***************************************************************************)
MaxTokens == 3    \* tokens in a source handed to strip_js_comments

JsTokens ==
    {[kind |-> "code", text |-> "x=1;"],
     [kind |-> "code", text |-> "a / b;"],
     [kind |-> "string", text |-> "\"//s\""],
     [kind |-> "string", text |-> "'/*s*/'"],
     [kind |-> "string", text |-> "\"\\\\\""],
     [kind |-> "line_comment", text |-> "// c\n"],
     [kind |-> "line_comment", text |-> "// /* c\n"],
     [kind |-> "block_comment", text |-> "/* c */"],
     [kind |-> "block_comment", text |-> "/* a * b */"]}

\* char::is_whitespace
is_whitespace(ch) == ch \in {" ", "\t", "\n"}

\* One round of the while loop of strip_js_comments, at the i-th character
\* (i from 1): the match, its arms in the order of the source.  It yields
\* how far i advances, and final_text and the three states after the round.
\* The third string delimiter of the first arm, the template-literal quote,
\* occurs in no source of the model and is not written here.
strip_step(js_string, skip_whitespace, i, final_text, is_in_block_comment, is_in_line_comment, string_delimiter) ==
    LET ch == SubSeq(js_string, i, i)
        prev == SubSeq(js_string, i - 1, i - 1)
        next == SubSeq(js_string, i + 1, i + 1)
        has_next == i + 1 <= Len(js_string)
        keep(step, text, block, line, delimiter) ==
            [step |-> step, final_text |-> text, is_in_block_comment |-> block,
             is_in_line_comment |-> line, string_delimiter |-> delimiter]
    IN IF ch \in {"\"", "'"} /\ ~is_in_block_comment /\ ~is_in_line_comment
             /\ string_delimiter = None
       THEN keep(1, final_text \o ch, is_in_block_comment, is_in_line_comment, Some(ch))
       ELSE IF string_delimiter = Some(ch) /\ i > 1 /\ prev # "\\"
       THEN keep(1, final_text \o ch, is_in_block_comment, is_in_line_comment, None)
       ELSE IF ch = "/" /\ (i = 1 \/ prev # "\\") /\ string_delimiter = None /\ has_next
       THEN IF next = "/"
            THEN keep(2, final_text, is_in_block_comment,
                      IF ~is_in_block_comment THEN TRUE ELSE is_in_line_comment,
                      string_delimiter)
            ELSE IF next = "*"
            THEN keep(2, final_text, TRUE, is_in_line_comment, string_delimiter)
            ELSE keep(1, final_text \o ch, is_in_block_comment, is_in_line_comment,
                      string_delimiter)
       ELSE IF ch = "*" /\ is_in_block_comment /\ has_next
       THEN IF next = "/"
            THEN keep(2, final_text, FALSE, is_in_line_comment, string_delimiter)
            ELSE keep(1, final_text \o ch, is_in_block_comment, is_in_line_comment,
                      string_delimiter)
       ELSE IF ch = "\n" /\ is_in_line_comment
       THEN keep(1, final_text, is_in_block_comment, FALSE, string_delimiter)
       ELSE IF is_whitespace(ch) /\ skip_whitespace /\ string_delimiter = None
       THEN keep(1, final_text, is_in_block_comment, is_in_line_comment, string_delimiter)
       ELSE IF ~is_in_block_comment /\ ~is_in_line_comment
       THEN keep(1, final_text \o ch, is_in_block_comment, is_in_line_comment,
                 string_delimiter)
       ELSE keep(1, final_text, is_in_block_comment, is_in_line_comment, string_delimiter)

\* The while loop of strip_js_comments from the i-th character on.
RECURSIVE strip_loop(_, _, _, _, _, _, _)
strip_loop(js_string, skip_whitespace, i, final_text, is_in_block_comment, is_in_line_comment, string_delimiter) ==
    IF i > Len(js_string) THEN final_text
    ELSE LET round == strip_step(js_string, skip_whitespace, i, final_text,
                                 is_in_block_comment, is_in_line_comment, string_delimiter)
         IN strip_loop(js_string, skip_whitespace, i + round.step, round.final_text,
                       round.is_in_block_comment, round.is_in_line_comment,
                       round.string_delimiter)

\* lexers::strip_js_comments
strip_js_comments(js_string, skip_whitespace) ==
    strip_loop(js_string, skip_whitespace, 1, "", FALSE, FALSE, None)

\* The source text of a sequence of tokens.
RECURSIVE SourceText(_)
SourceText(tokens) ==
    IF tokens = <<>> THEN "" ELSE Head(tokens).text \o SourceText(Tail(tokens))

LexerInputs ==
    {[pc |-> "input", tokens |-> t, js_string |-> SourceText(t),
      skip_whitespace |-> w, result |-> None] :
        t \in SeqsUpTo(JsTokens, MaxTokens), w \in BOOLEAN}

LexerInit ==
    /\ source = None
    /\ params = None
    /\ rendered = None
    /\ INIT_PLATFORM = [state |-> "incomplete", owner |-> None]
    /\ stdout_lock = None
    /\ call = IdleCalls
    /\ bundle = IdleRender
    /\ independent = [pc |-> "idle"]
    /\ source_map = [pc |-> "idle"]
    /\ lexer \in LexerInputs
    /\ MoreIdle

\* strip_js_comments is applied to the source.
StripJsComments ==
    /\ lexer.pc = "input"
    /\ lexer' = [lexer EXCEPT !.pc = "done",
                    !.result = Some(strip_js_comments(lexer.js_string, lexer.skip_whitespace))]
    /\ UNCHANGED <<source, params, rendered, INIT_PLATFORM, stdout_lock, call, bundle,
                   independent, source_map, more_vars>>

LexerNext == StripJsComments

LexerSpec == LexerInit /\ [][LexerNext]_vars

(***************************************************************************)
(* Claims about strip_js_comments.                                         *)
(***************************************************************************)
Stripped == lexer.pc = "done" /\ ~lexer.skip_whitespace

\* The texts of the tokens of the given kinds, in order.
RECURSIVE TextsOf(_, _)
TextsOf(tokens, kinds) ==
    IF tokens = <<>> THEN <<>>
    ELSE (IF Head(tokens).kind \in kinds THEN <<Head(tokens).text>> ELSE <<>>)
            \o TextsOf(Tail(tokens), kinds)

\* texts occur in s from position `from` on, one after the other.
RECURSIVE OccurInOrder(_, _, _)
OccurInOrder(s, texts, from) ==
    IF texts = <<>> THEN TRUE
    ELSE LET t == Head(texts)
             at == {i \in from..(Len(s) - Len(t) + 1) : SubSeq(s, i, i + Len(t) - 1) = t}
         IN /\ at # {}
            /\ LET first == CHOOSE i \in at : \A j \in at : i <= j
               IN OccurInOrder(s, Tail(texts), first + Len(t))

\* C19: strip_js_comments(s, false) preserves every character of every
\* string literal of s verbatim and in order, including '//' and '/* */'
\* inside the literal, wherever the literal occurs in s.
C19_StringLiteralsArePreserved ==
    Stripped => OccurInOrder(lexer.result.v, TextsOf(lexer.tokens, {"string"}), 1)

\* C20: with skip_whitespace = false the output is the input with every
\* '//' comment (up to and including its newline) and every '/* ... */'
\* comment deleted: no character of a comment appears in the output and
\* every character outside comments is kept.
C20_CommentsAreRemovedEntirely ==
    Stripped => lexer.result.v = SourceText(
                    [i \in DOMAIN TextsOf(lexer.tokens, {"code", "string"}) |->
                        [text |-> TextsOf(lexer.tokens, {"code", "string"})[i]]])

(***************************************************************************)
(* update_source_map_path and make_source_map_paths_absolute                *)
(* (src/src/source_map.rs).  A call is one of the two functions with its   *)
(* arguments; the only step applies the function.                          *)
(***************************************************************************)
MaxPieces == 3    \* pieces of a script handed to update_source_map_path

\* The literal prefix of the pattern r"sourceMappingURL=(.*?).map".
DirectivePrefix == "sourceMappingURL="

\* The end of the match of the pattern that starts at position i of
\* contents, 0 when there is none: the prefix, then the shortest run of
\* characters other than a newline (the lazy group), then one more character
\* other than a newline (the unescaped dot), then "map".
match_end(contents, i) ==
    LET start == i + Len(DirectivePrefix)
        dots == {k \in start..(Len(contents) - 3) :
                    /\ \A j \in start..k : SubSeq(contents, j, j) # "\n"
                    /\ SubSeq(contents, k + 1, k + 3) = "map"}
    IN IF start - 1 <= Len(contents) /\ SubSeq(contents, i, start - 1) = DirectivePrefix
            /\ dots # {}
       THEN (CHOOSE k \in dots : \A l \in dots : k <= l) + 3
       ELSE 0

\* Regex::replace_all: the non-overlapping matches from left to right, each
\* replaced by the replacement text, every other character copied.
RECURSIVE replace_all(_, _, _, _)
replace_all(contents, replacement, i, out) ==
    IF i > Len(contents) THEN out
    ELSE LET e == match_end(contents, i)
         IN IF e > 0
            THEN replace_all(contents, replacement, e + 1, out \o replacement)
            ELSE replace_all(contents, replacement, i + 1, out \o SubSeq(contents, i, i))

\* source_map::update_source_map_path.  No new_path of the model holds a
\* '$', so the replacement text is taken literally.
update_source_map_path(contents, new_path) ==
    replace_all(contents, DirectivePrefix \o new_path \o ".map", 1, "")

\* The pieces scripts are made of: text, and directives with their stems.
ScriptPieces ==
    {[kind |-> "text", text |-> "var testing; //# "],
     [kind |-> "text", text |-> "\n"],
     [kind |-> "directive", stem |-> "myfile.js"],
     [kind |-> "directive", stem |-> "first.js"],
     [kind |-> "directive", stem |-> "sitemap.js"]}

\* The text of a piece.
PieceText(piece) ==
    IF piece.kind = "directive" THEN DirectivePrefix \o piece.stem \o ".map" ELSE piece.text

RECURSIVE PiecesText(_)
PiecesText(pieces) ==
    IF pieces = <<>> THEN "" ELSE PieceText(Head(pieces)) \o PiecesText(Tail(pieces))

NewPaths == {"final_path.js", "x"}

UpdateInputs ==
    {[pc |-> "input", fn |-> "update_source_map_path", pieces |-> q,
      contents |-> PiecesText(q), new_path |-> n, result |-> None] :
        q \in SeqsUpTo(ScriptPieces, MaxPieces), n \in NewPaths}

MaxSources == 2    \* entries of sources[] in a source map

\* Path::components on Unix: the root, then the parts between separators;
\* empty parts are dropped, and so is "." unless it begins a relative path.
components(path) ==
    LET parts == split(path, "/")
        kept == {i \in DOMAIN parts :
                    /\ parts[i] # ""
                    /\ parts[i] = "." => (i = 1 /\ ~is_absolute(path))}
        nth(n) == CHOOSE i \in kept : Cardinality({j \in kept : j < i}) = n - 1
    IN (IF is_absolute(path) THEN <<"/">> ELSE <<>>)
            \o [n \in 1..Cardinality(kept) |-> parts[nth(n)]]

\* The text of a path made of the given components.
RECURSIVE path_of(_)
path_of(tokens) ==
    IF tokens = <<>> THEN ""
    ELSE IF Len(tokens) = 1 THEN tokens[1]
    ELSE IF Head(tokens) = "/" THEN "/" \o path_of(Tail(tokens))
    ELSE IF Len(tokens) = 2 THEN tokens[1] \o "/" \o tokens[2]
    ELSE tokens[1] \o "/" \o path_of(Tail(tokens))

\* Path::parent: the path without its last component; None for the root
\* and for the empty path.
parent(path) ==
    LET c == components(path)
    IN IF c = <<>> \/ c = <<"/">> THEN None ELSE Some(path_of(SubSeq(c, 1, Len(c) - 1)))

\* Path::join
path_join(base, path) ==
    IF is_absolute(path) THEN path
    ELSE IF base = "" THEN path
    ELSE IF SubSeq(base, Len(base), Len(base)) = "/" THEN base \o path
    ELSE base \o "/" \o path

\* The loop of Absolutize::absolutize over the components after the first:
\* "." is skipped, ".." removes the last token unless it is the root.
RECURSIVE absolutize_rest(_, _, _)
absolutize_rest(rest, tokens, first_is_root) ==
    IF rest = <<>> THEN tokens
    ELSE LET component == Head(rest)
         IN IF component = "." THEN absolutize_rest(Tail(rest), tokens, first_is_root)
            ELSE IF component = ".."
            THEN absolutize_rest(Tail(rest),
                    IF Len(tokens) > 0 /\ (Len(tokens) # 1 \/ ~first_is_root)
                    THEN SubSeq(tokens, 1, Len(tokens) - 1) ELSE tokens,
                    first_is_root)
            ELSE absolutize_rest(Tail(rest), Append(tokens, component), first_is_root)

absolutize_keeping_parents(path, cwd) ==
    LET c == components(path)
    IN IF c = <<>> THEN cwd
       ELSE IF Head(c) = "/" THEN path_of(c)
       ELSE path_of(components(cwd) \o c)

\* path_absolutize::Absolutize::absolutize on Unix, the working directory
\* being cwd: a path that begins at the root keeps it, any other is taken
\* from cwd; no file is looked up.
absolutize(path, cwd) ==
    LET c == components(path)
        cwd_tokens == components(cwd)
        cwd_parent == IF Len(cwd_tokens) > 1
                      THEN SubSeq(cwd_tokens, 1, Len(cwd_tokens) - 1) ELSE <<"/">>
        first == IF Head(c) = "/" THEN <<"/">>
                 ELSE IF Head(c) = "." THEN cwd_tokens
                 ELSE IF Head(c) = ".." THEN cwd_parent
                 ELSE Append(cwd_tokens, Head(c))
    IN IF c = <<>> THEN cwd
       ELSE path_of(absolutize_rest(Tail(c), first, Head(first) = "/"))

\* The keys serde requires of a SourceMapSchema, and those it may omit.
RequiredKeys == {"version", "sources", "names", "mappings"}
OptionalKeys == {"sourcesContent", "sourceRoot", "file"}

\* serde_json::from_str::<SourceMapSchema>: contents is the JSON object, a
\* function from its keys; keys the schema does not name are dropped.
from_str(contents) ==
    IF ~(RequiredKeys \subseteq DOMAIN contents)
    THEN Err("missing field")
    ELSE Ok([k \in RequiredKeys \cup OptionalKeys |->
                IF k \in DOMAIN contents THEN contents[k] ELSE None])

\* source_map::make_source_map_paths_absolute; serde_json::to_string
\* writes every field of the schema.
make_source_map_paths_absolute(contents, original_script_path, cwd) ==
    LET parsed == from_str(contents)
        source_map_schema == parsed.value
        parent_opt == parent(original_script_path)
        parent_path == IF parent_opt = None THEN "" ELSE parent_opt.v
        resolve(src) ==
            IF is_absolute(src) THEN absolutize(src, cwd)
            ELSE absolutize(path_join(parent_path, src), cwd)
    IN IF parsed.tag # "Ok" THEN parsed
       ELSE Ok([source_map_schema EXCEPT
                    !.sources = [i \in DOMAIN source_map_schema.sources |->
                                    resolve(source_map_schema.sources[i])]])

SourceEntries ==
    {"./src/file1.js", "/absolute/path/../path/src/file2.js", "../lib/x.js",
     "a.js", "/../b/./c.js"}

ScriptPaths == {"/tmp/dist/main.js", "dist/main.js", "main.js", "/"}

WorkingDirectories == {"/srv/app"}

SourceMapObjects ==
    {[version |-> 3, sources |-> q, names |-> n, mappings |-> m, file |-> "main.js"] :
        q \in SeqsUpTo(SourceEntries, MaxSources), n \in {<<>>, <<"f">>},
        m \in {"", "AAAA;CAAC"}}
    \cup {[version |-> 3, sources |-> <<"a.js">>, mappings |-> ""]}

AbsoluteInputs ==
    {[pc |-> "input", fn |-> "make_source_map_paths_absolute", contents |-> c,
      original_script_path |-> p, cwd |-> d, result |-> None] :
        c \in SourceMapObjects, p \in ScriptPaths, d \in WorkingDirectories}

PathsInit ==
    /\ source = None
    /\ params = None
    /\ rendered = None
    /\ INIT_PLATFORM = [state |-> "incomplete", owner |-> None]
    /\ stdout_lock = None
    /\ call = IdleCalls
    /\ bundle = IdleRender
    /\ independent = [pc |-> "idle"]
    /\ source_map = [pc |-> "idle"]
    /\ lexer = [pc |-> "idle"]
    /\ map_paths \in UpdateInputs \cup AbsoluteInputs
    /\ logger = [pc |-> "idle"]
    /\ watcher = [pc |-> "idle"]
    /\ build = [pc |-> "idle"]
    /\ console = [pc |-> "idle"]

PathsUnchanged ==
    UNCHANGED <<source, params, rendered, INIT_PLATFORM, stdout_lock, call, bundle,
                independent, source_map, lexer, logger, watcher, build, console>>

\* update_source_map_path is applied to the script.
UpdateSourceMapPath ==
    /\ map_paths.pc = "input"
    /\ map_paths.fn = "update_source_map_path"
    /\ map_paths' = [map_paths EXCEPT !.pc = "done",
            !.result = Some(update_source_map_path(map_paths.contents, map_paths.new_path))]
    /\ PathsUnchanged

\* make_source_map_paths_absolute is applied to the source map.
MakeSourceMapPathsAbsolute ==
    /\ map_paths.pc = "input"
    /\ map_paths.fn = "make_source_map_paths_absolute"
    /\ map_paths' = [map_paths EXCEPT !.pc = "done",
            !.result = make_source_map_paths_absolute(map_paths.contents,
                            map_paths.original_script_path, map_paths.cwd)]
    /\ PathsUnchanged

PathsNext ==
    \/ UpdateSourceMapPath
    \/ MakeSourceMapPathsAbsolute

PathsSpec == PathsInit /\ [][PathsNext]_vars

(***************************************************************************)
(* Claims about the path functions of source_map.rs.                       *)
(***************************************************************************)
Updated == map_paths.pc = "done" /\ map_paths.fn = "update_source_map_path"

\* The script in which every directive names new_path and nothing else changed.
RECURSIVE Redirected(_, _)
Redirected(pieces, new_path) ==
    IF pieces = <<>> THEN ""
    ELSE (IF Head(pieces).kind = "directive"
          THEN DirectivePrefix \o new_path \o ".map"
          ELSE Head(pieces).text) \o Redirected(Tail(pieces), new_path)

\* C21: update_source_map_path(contents, new_name) replaces every
\* 'sourceMappingURL=<stem>.map' directive of contents by
\* 'sourceMappingURL=<new_name>.map' and leaves every character outside
\* the directives unchanged.
C21_EveryDirectiveIsRedirected ==
    Updated => map_paths.result.v = Redirected(map_paths.pieces, map_paths.new_path)

Absolutized == map_paths.pc = "done" /\ map_paths.fn = "make_source_map_paths_absolute"

\* The components of a path with "." dropped and ".." taking back the
\* component before it, never the root.
RECURSIVE Collapse(_, _)
Collapse(cs, stack) ==
    IF cs = <<>> THEN stack
    ELSE Collapse(Tail(cs),
            IF Head(cs) = "." THEN stack
            ELSE IF Head(cs) = ".."
                 THEN (IF Len(stack) > 1 THEN SubSeq(stack, 1, Len(stack) - 1) ELSE stack)
                 ELSE Append(stack, Head(cs)))

\* The directory a relative entry is resolved against: the parent of the
\* script, taken from the working directory when the script path is relative.
BaseDirectory ==
    LET p == parent(map_paths.original_script_path).v
    IN IF is_absolute(p) THEN components(p)
       ELSE components(map_paths.cwd) \o components(p)

Resolved(entry) ==
    path_of(Collapse(Tail(IF is_absolute(entry) THEN components(entry)
                          ELSE BaseDirectory \o components(entry)), <<"/">>))

\* C22: make_source_map_paths_absolute returns a source map whose sources[]
\* has the length and order of the input's; each relative entry is resolved
\* against the parent directory of original_script_path, every entry is
\* absolute and has no '.' or '..' component left, whether or not the path
\* exists; version, names and mappings are those of the input.
C22_SourcesAreMadeAbsolute ==
    (/\ Absolutized
     /\ RequiredKeys \subseteq DOMAIN map_paths.contents
     /\ parent(map_paths.original_script_path) # None)
    => /\ map_paths.result.tag = "Ok"
       /\ LET out == map_paths.result.value
              in == map_paths.contents
          IN /\ Len(out.sources) = Len(in.sources)
             /\ \A i \in DOMAIN in.sources :
                    /\ out.sources[i] = Resolved(in.sources[i])
                    /\ is_absolute(out.sources[i])
                    /\ \A j \in DOMAIN components(out.sources[i]) :
                            components(out.sources[i])[j] \notin {".", ".."}
             /\ out.version = in.version
             /\ out.names = in.names
             /\ out.mappings = in.mappings

C22_Witness ==
    /\ Absolutized
    /\ map_paths.original_script_path = "/tmp/dist/main.js"
    /\ map_paths.contents.sources = <<"./src/file1.js", "/absolute/path/../path/src/file2.js">>
    /\ map_paths.result.tag = "Ok"
    /\ map_paths.result.value.sources =
            <<"/tmp/dist/src/file1.js", "/absolute/path/src/file2.js">>

(***************************************************************************)
(* Claims about the comment states of strip_js_comments.                   *)
(***************************************************************************)
OnlyCommentsAndCode ==
    \A i \in DOMAIN lexer.tokens :
        lexer.tokens[i].kind \in {"code", "line_comment", "block_comment"}

\* C23: a newline always ends the current line comment and '*/' always ends
\* the current block comment, whatever the comment text holds (a '/*'
\* inside a '//' comment included): in a source made of comments and code,
\* the code that follows a comment is emitted.
C23_CommentsEndWhereTheyEnd ==
    (Stripped /\ OnlyCommentsAndCode)
    => OccurInOrder(lexer.result.v, TextsOf(lexer.tokens, {"code"}), 1)

(***************************************************************************)
(* ConsoleSpec: one Ssr::render call whose script calls the console.  The  *)
(* script is the sequence of console calls it makes while its exported     *)
(* function runs; every call is one step, the handler installed by         *)
(* Ssr::inject_logger.                                                     *)
(***************************************************************************)
MaxConsoleCalls == 2    \* console calls a script makes during a render

console_types == {"log", "warn", "info", "debug", "error"}

\* Values a script hands to the console.  coerced is what the engine's
\* ToString yields: None where it throws instead (a Symbol, an object
\* without a usable toString such as Object.create(null)).
JsString(text) == [kind |-> "string", coerced |-> Some(text)]
JsNumber(text) == [kind |-> "number", coerced |-> Some(text)]
JsSymbol == [kind |-> "symbol", coerced |-> None]

\* Value::to_string
to_string(value) == value.coerced

ConsoleCalls ==
    {[console_type |-> "log", args |-> <<JsString("test log")>>],
     [console_type |-> "warn", args |-> <<JsString("a"), JsNumber("1")>>],
     [console_type |-> "info", args |-> <<>>],
     [console_type |-> "debug", args |-> <<JsNumber("1")>>],
     [console_type |-> "error", args |-> <<JsString("e"), JsString("f")>>],
     [console_type |-> "log", args |-> <<JsString("s"), JsSymbol>>]}

\* Vec<String>::join
RECURSIVE join_strings(_, _)
join_strings(strings, sep) ==
    IF strings = <<>> THEN ""
    ELSE IF Len(strings) = 1 THEN strings[1]
    ELSE strings[1] \o sep \o join_strings(Tail(strings), sep)

\* What the handler writes: the format string of its writeln!.
logger_line(console_type, args) ==
    "ssr console [" \o console_type \o "]: "
        \o join_strings([i \in DOMAIN args |-> to_string(args[i]).v], " ") \o "\n"

ConsoleInputs ==
    {[pc |-> "input", calls |-> q, html |-> "<html></html>", made |-> 0,
      stdout |-> <<>>, result |-> None] : q \in SeqsUpTo(ConsoleCalls, MaxConsoleCalls)}

ConsoleInit ==
    /\ source = None
    /\ params = None
    /\ rendered = None
    /\ INIT_PLATFORM = [state |-> "incomplete", owner |-> None]
    /\ stdout_lock = None
    /\ call = IdleCalls
    /\ bundle = IdleRender
    /\ independent = [pc |-> "idle"]
    /\ source_map = [pc |-> "idle"]
    /\ lexer = [pc |-> "idle"]
    /\ map_paths = [pc |-> "idle"]
    /\ logger = [pc |-> "idle"]
    /\ watcher = [pc |-> "idle"]
    /\ build = [pc |-> "idle"]
    /\ console \in ConsoleInputs

ConsoleUnchanged ==
    UNCHANGED <<source, params, rendered, INIT_PLATFORM, stdout_lock, call, bundle,
                independent, source_map, lexer, map_paths, logger, watcher, build>>

\* Ssr::render up to the call of the exported function: inject_logger has
\* installed the five handlers, each holding a clone of the writer.
ConsoleRender ==
    /\ console.pc = "input"
    /\ console' = [console EXCEPT !.pc = "running"]
    /\ ConsoleUnchanged

\* The handler built in inject_logger, run for the script's next console
\* call.  to_string(..).unwrap() panics inside the engine's callback when
\* an argument has no string coercion: nothing is written and the render
\* does not return.
LoggerFn ==
    /\ console.pc = "running"
    /\ console.made < Len(console.calls)
    /\ LET c == console.calls[console.made + 1]
       IN IF \E i \in DOMAIN c.args : to_string(c.args[i]) = None
          THEN console' = [console EXCEPT !.pc = "done", !.made = @ + 1, !.result = Panic]
          ELSE console' = [console EXCEPT !.made = @ + 1,
                              !.stdout = Append(@, logger_line(c.console_type, c.args))]
    /\ ConsoleUnchanged

\* The exported function returns and Ssr::render returns its string.
ConsoleReturn ==
    /\ console.pc = "running"
    /\ console.made = Len(console.calls)
    /\ console' = [console EXCEPT !.pc = "done", !.result = Ok(console.html)]
    /\ ConsoleUnchanged

ConsoleNext ==
    \/ ConsoleRender
    \/ LoggerFn
    \/ ConsoleReturn

ConsoleSpec == ConsoleInit /\ [][ConsoleNext]_vars

(***************************************************************************)
(* Claims about the console bridge.                                        *)
(***************************************************************************)
\* C24: each call of console.log, warn, info, debug or error the script
\* makes during a render appends exactly one line 'ssr console [<type>]: '
\* followed by the arguments joined by single spaces to the writer of that
\* render, in the order of the calls, and the render returns what it
\* returns without the calls.
C24_EveryConsoleCallIsOneLine ==
    /\ Len(console.stdout) = console.made
    /\ \A k \in 1..console.made :
            starts_with(console.stdout[k],
                        "ssr console [" \o console.calls[k].console_type \o "]: ")
    /\ console.pc = "done" => console.result = Ok(console.html)

(***************************************************************************)
(* LoggerSpec: threads calling logging::init_logger.  LOGGER_INITIALIZED   *)
(* is a Mutex<bool>; the guard taken at the top of init_logger is held to  *)
(* the end of the call.                                                    *)
(***************************************************************************)
MaxInitThreads == 3    \* threads that call init_logger
MaxInitCalls == 2      \* calls of init_logger one thread makes

InitThreads == 1..MaxInitThreads

LoggerStart ==
    [pc |-> "run",
     LOGGER_INITIALIZED |-> [value |-> FALSE, owner |-> None],
     thread |-> [t \in InitThreads |-> [pc |-> "idle", calls |-> 0]],
     built |-> 0]

LoggerInit ==
    /\ source = None
    /\ params = None
    /\ rendered = None
    /\ INIT_PLATFORM = [state |-> "incomplete", owner |-> None]
    /\ stdout_lock = None
    /\ call = IdleCalls
    /\ bundle = IdleRender
    /\ independent = [pc |-> "idle"]
    /\ source_map = [pc |-> "idle"]
    /\ lexer = [pc |-> "idle"]
    /\ map_paths = [pc |-> "idle"]
    /\ logger = LoggerStart
    /\ watcher = [pc |-> "idle"]
    /\ build = [pc |-> "idle"]
    /\ console = [pc |-> "idle"]

LoggerUnchanged ==
    UNCHANGED <<source, params, rendered, INIT_PLATFORM, stdout_lock, call, bundle,
                independent, source_map, lexer, map_paths, watcher, build, console>>

\* init_logger: LOGGER_INITIALIZED.lock(); the caller waits while another
\* thread holds the guard.
init_logger_lock(t) ==
    /\ logger.thread[t].pc = "idle"
    /\ logger.thread[t].calls < MaxInitCalls
    /\ logger.LOGGER_INITIALIZED.owner = None
    /\ logger' = [logger EXCEPT !.LOGGER_INITIALIZED.owner = Some(t),
                                !.thread[t].pc = "locked"]
    /\ LoggerUnchanged

\* if *initialized { return; }
init_logger_return(t) ==
    /\ logger.thread[t].pc = "locked"
    /\ logger.LOGGER_INITIALIZED.value
    /\ logger' = [logger EXCEPT !.LOGGER_INITIALIZED.owner = None,
                                !.thread[t].pc = "idle", !.thread[t].calls = @ + 1]
    /\ LoggerUnchanged

\* The body: the builder is configured and builder.try_init() is called.
init_logger_build(t) ==
    /\ logger.thread[t].pc = "locked"
    /\ ~logger.LOGGER_INITIALIZED.value
    /\ logger' = [logger EXCEPT !.built = @ + 1, !.thread[t].pc = "built"]
    /\ LoggerUnchanged

\* *initialized = true; the guard is dropped at the end of the function.
init_logger_set(t) ==
    /\ logger.thread[t].pc = "built"
    /\ logger' = [logger EXCEPT !.LOGGER_INITIALIZED = [value |-> TRUE, owner |-> None],
                                !.thread[t].pc = "idle", !.thread[t].calls = @ + 1]
    /\ LoggerUnchanged

LoggerNext ==
    \E t \in InitThreads :
        \/ init_logger_lock(t)
        \/ init_logger_return(t)
        \/ init_logger_build(t)
        \/ init_logger_set(t)

LoggerSpec == LoggerInit /\ [][LoggerNext]_vars

\* The body of init_logger has run at most once, and only one thread is in
\* the function at a time.
LoggerBuiltAtMostOnce ==
    /\ logger.built <= 1
    /\ Cardinality({t \in InitThreads : logger.thread[t].pc # "idle"}) <= 1
    /\ logger.LOGGER_INITIALIZED.value => logger.built = 1

(***************************************************************************)
(* Claims about one-time initialization.                                   *)
(***************************************************************************)
\* The render thread of call c is past Ssr::new, inside Ssr::render.
Rendering(c) == call[c].rpc \in {"render", "writing", "send"}

\* The initializer of INIT_PLATFORM was started and will never finish: the
\* thread that ran it was stopped inside it.
InitializationAbandoned ==
    \/ INIT_PLATFORM.state = "poisoned"
    \/ /\ INIT_PLATFORM.state = "running"
       /\ \E d \in Calls : INIT_PLATFORM.owner = Some(d) /\ call[d].rpc = "killed"

\* C25: under any interleaving of concurrent Ssr::new calls the platform
\* initialization runs at most once, every later call is a no-op, and no
\* render starts before the initialization has completed (the same for the
\* body of init_logger): a thread inside render implies a completed
\* initialization, at most one thread is ever inside the initializer, and
\* a call that enters Ssr::new after the initializer was started finds it
\* completed or completing, never abandoned.
C25_InitializedOnceThenNoOp ==
    /\ \A c \in Calls : Rendering(c) => INIT_PLATFORM.state = "complete"
    /\ Cardinality({c \in Calls : call[c].rpc = "init"}) <= 1
    /\ \A c \in Calls : call[c].rpc = "new" => ~InitializationAbandoned

(***************************************************************************)
(* Claims about the channel of run_thread_with_timeout.                    *)
(***************************************************************************)
\* What a call on the worker path may return: what its own task returns,
\* or the timeout error.
OwnOutcomes(c) ==
    (TaskResults(call[c].js_string) \ {Panic})
        \cup {HardTimeoutError(<<"Function execution timed out">>)}

\* C26: each run_thread_with_timeout call has one worker and its own
\* channel, which carries at most one message; the call yields one
\* outcome, its worker's result or HardTimeout; once the deadline has fired
\* the call returns HardTimeout whatever the worker sends later; no call
\* receives the result of another call.
C26_OneChannelOneOutcomePerCall ==
    \A c \in Calls :
        call[c].thread = "worker" =>
            /\ Len(call[c].chan) <= 1
            /\ \A i \in DOMAIN call[c].chan : call[c].chan[i] \in TaskResults(call[c].js_string)
            /\ call[c].pc = "join" => call[c].outcome \in TaskResults(call[c].js_string)
            /\ call[c].pc = "done" <=> call[c].result # None
            /\ call[c].pc = "done" => call[c].result \in OwnOutcomes(c)
            /\ call[c].cancelled =>
                    /\ call[c].pc = "done"
                    /\ call[c].chan = <<>>
                    /\ call[c].result = HardTimeoutError(<<"Function execution timed out">>)

\* Two concurrent calls with different scripts have both returned the
\* result of their own worker.
C26_Witness ==
    /\ \A c \in Calls : call[c].thread = "worker" /\ call[c].pc = "done"
    /\ call["c1"].result.tag = "Ok"
    /\ call["c2"].result.tag = "V8ExceptionError"

(***************************************************************************)
(* Claims about the bundle mode of compile_production_bundle.              *)
(***************************************************************************)
\* The wrappers were written and handed to bundle_common.
BundlePassReached == bundle.mode # "none"

\* C27: compile_production_bundle with is_server = true hands all the
\* synthesized wrappers to one SingleServer bundle pass, so for two or more
\* page groups it returns InvalidInput, the bundler is not invoked and no
\* entry script is produced; a call succeeds only for one group in server
\* mode or in client (MultiClient) mode.
C27_ServerModeTakesOneGroup ==
    ProductionDone =>
        /\ BundlePassReached =>
            /\ bundle.mode = (IF bundle.is_server THEN "SingleServer" ELSE "MultiClient")
            /\ Len(bundle.entrypoint_paths) = Len(bundle.paths)
        /\ (bundle.is_server /\ Len(bundle.paths) >= 2) =>
            /\ BundlePassReached => bundle.result.tag = "InvalidInput"
            /\ bundle.result.tag # "Ok"
            /\ ~bundle.bundler_invoked
            /\ bundle.dir = {}
            /\ bundle.entrypoints = EmptyMap
        /\ bundle.result.tag = "Ok" => (~bundle.is_server \/ Len(bundle.paths) = 1)

C27_Witness ==
    /\ ProductionDone
    /\ bundle.is_server
    /\ Len(bundle.paths) = 2
    /\ BundlePassReached
    /\ bundle.result.tag = "InvalidInput"
    /\ ~bundle.bundler_invoked

(***************************************************************************)
(* WatcherSpec: one DependencyWatcher (src/src/dependencies.rs) over a     *)
(* directory whose files are edited between calls.  A file on disk is the  *)
(* sequence of the import sources in it.  The graph is node_map (the       *)
(* normalized path of each node, with the weight of the node) and the      *)
(* list of edges in the order they were added, each between two keys of    *)
(* node_map.                                                               *)
(***************************************************************************)
MaxUpdates == 2    \* update_file calls on one watcher

WatchedFiles == {"/app/a.tsx", "/app/b.tsx", "/app/c.tsx"}

\* A module with the given import sources, and a file the parser rejects.
Module(imports) == [parses |-> TRUE, imports |-> imports]
Unparsable == [parses |-> FALSE, imports |-> <<>>]

\* What the files can hold.
FileContents(file) ==
    IF file = "/app/a.tsx" THEN {Module(<<>>), Module(<<"./b">>), Module(<<"./b", "./c">>)}
    ELSE IF file = "/app/b.tsx" THEN {Module(<<>>), Module(<<"./c">>), Unparsable}
    ELSE {Module(<<>>)}

\* PathBuf::pop followed over the components of a path.
RECURSIVE normalize_components(_, _)
normalize_components(cs, ret) ==
    IF cs = <<>> THEN ret
    ELSE LET component == Head(cs)
         IN normalize_components(Tail(cs),
                IF component = "." THEN ret
                ELSE IF component = ".."
                     THEN (IF ret = <<>> \/ ret = <<"/">> THEN ret
                           ELSE SubSeq(ret, 1, Len(ret) - 1))
                     ELSE Append(ret, component))

\* dependencies::normalize_path: "." and ".." collapsed without looking at
\* the disk, then the file name cut at its first '.'.
normalize_path(path) ==
    LET ret == normalize_components(components(path), <<>>)
    IN IF ret = <<>> \/ ret = <<"/">> THEN path_of(ret)
       ELSE path_of(Append(SubSeq(ret, 1, Len(ret) - 1), split(ret[Len(ret)], ".")[1]))

\* DependencyWatcher::resolve_dependency; the directory has no tsconfig.json.
resolve_dependency(root_dir, current_file, import_path) ==
    IF starts_with(import_path, ".")
    THEN path_join(parent(current_file).v, import_path)
    ELSE IF starts_with(import_path, "/")
    THEN path_join(root_dir, SubSeq(import_path, 2, Len(import_path)))
    ELSE path_join(path_join(root_dir, "node_modules"), import_path)

\* node_map.entry(key).or_insert_with(|| graph.add_node(weight))
or_insert(node_map, key, weight) ==
    IF key \in DOMAIN node_map THEN node_map ELSE Insert(node_map, key, weight)

\* The loop of index_file over the dependencies.
RECURSIVE index_dependencies(_, _, _, _)
index_dependencies(w, file_path, node_index, dependencies) ==
    IF dependencies = <<>> THEN w
    ELSE LET resolved_dep == resolve_dependency(w.root_dir, file_path, Head(dependencies))
             child_file == normalize_path(resolved_dep)
         IN index_dependencies(
                [w EXCEPT !.node_map = or_insert(@, child_file, resolved_dep),
                          !.edges = Append(@, <<node_index, child_file>>)],
                file_path, node_index, Tail(dependencies))

\* DependencyWatcher::index_file: the watcher after the call and the result.
index_file(w, file_path) ==
    IF file_path \notin DOMAIN w.disk
    THEN [watcher |-> w, result |-> Err("Failed to load file")]
    ELSE IF ~w.disk[file_path].parses
    THEN [watcher |-> w, result |-> Err("Failed to parse module")]
    ELSE LET parent_file == normalize_path(file_path)
             with_node == [w EXCEPT !.node_map = or_insert(@, parent_file, file_path)]
         IN [watcher |-> index_dependencies(with_node, file_path, parent_file,
                                            w.disk[file_path].imports),
             result |-> Ok("()")]

\* The variant of update_file that looks the file up by its normalized path.
update_file_by_normalized_path(w, file_path) ==
    LET key == normalize_path(file_path)
        cleared == IF key \in DOMAIN w.node_map
                   THEN [w EXCEPT !.edges = SelectSeq(@, LAMBDA e : e[1] # key)]
                   ELSE w
    IN index_file(cleared, file_path)

\* DependencyWatcher::update_file: node_map is looked up with file_path as
\* it was given; the outgoing edges of the node found are removed.
update_file(w, file_path) ==
    LET cleared == IF file_path \in DOMAIN w.node_map
                   THEN [w EXCEPT !.edges = SelectSeq(@, LAMBDA e : e[1] # file_path)]
                   ELSE w
    IN index_file(cleared, file_path)

\* The nodes a depth-first search from `from` visits.
RECURSIVE Dfs(_, _)
Dfs(edges, visited) ==
    LET next == visited \cup {edges[i][2] : i \in {j \in DOMAIN edges : edges[j][1] \in visited}}
    IN IF next = visited THEN visited ELSE Dfs(edges, next)

\* DependencyWatcher::get_affected_roots
get_affected_roots(w, changed_file_raw, root_paths_raw) ==
    LET changed_file == normalize_path(changed_file_raw)
        root_paths == [i \in DOMAIN root_paths_raw |-> normalize_path(root_paths_raw[i])]
    IN IF changed_file \notin DOMAIN w.node_map
       THEN Err("Changed file not found in DAG")
       ELSE IF \E i \in DOMAIN root_paths : root_paths[i] \notin DOMAIN w.node_map
       THEN Err("Root path not found in DAG")
       ELSE Ok({w.node_map[root_paths[i]] :
                    i \in {j \in DOMAIN root_paths :
                            changed_file \in Dfs(w.edges, {root_paths[j]})}})

\* index_directory over the files in the order read_dir yields them.
RECURSIVE index_directory(_, _)
index_directory(w, files) ==
    IF files = <<>> THEN w
    ELSE index_directory(index_file(w, Head(files)).watcher, Tail(files))

\* DependencyWatcher::new
NewWatcher(root_dir, disk, order) ==
    index_directory([pc |-> "ready", root_dir |-> root_dir, disk |-> disk,
                     node_map |-> EmptyMap, edges |-> <<>>, stale |-> {}, updates |-> 0,
                     last |-> None],
                    order)

InitialDisks ==
    {d \in [WatchedFiles -> UNION {FileContents(f) : f \in WatchedFiles}] :
        \A f \in WatchedFiles : d[f] \in FileContents(f) /\ d[f] # Unparsable}

WatcherInit ==
    /\ source = None
    /\ params = None
    /\ rendered = None
    /\ INIT_PLATFORM = [state |-> "incomplete", owner |-> None]
    /\ stdout_lock = None
    /\ call = IdleCalls
    /\ bundle = IdleRender
    /\ independent = [pc |-> "idle"]
    /\ source_map = [pc |-> "idle"]
    /\ lexer = [pc |-> "idle"]
    /\ map_paths = [pc |-> "idle"]
    /\ logger = [pc |-> "idle"]
    /\ \E disk \in InitialDisks, order \in InjSeqs(WatchedFiles, Cardinality(WatchedFiles)) :
            watcher = NewWatcher("/app", disk, order)
    /\ build = [pc |-> "idle"]
    /\ console = [pc |-> "idle"]

WatcherUnchanged ==
    UNCHANGED <<source, params, rendered, INIT_PLATFORM, stdout_lock, call, bundle,
                independent, source_map, lexer, map_paths, logger, build, console>>

\* The developer saves a file with other imports in it.
EditFile ==
    /\ watcher.pc = "ready"
    /\ watcher.updates < MaxUpdates
    /\ \E f \in WatchedFiles : \E c \in FileContents(f) :
          /\ c # watcher.disk[f]
          /\ watcher' = [watcher EXCEPT !.disk[f] = c, !.stale = @ \cup {f}, !.last = None]
    /\ WatcherUnchanged

\* update_frontend_state: watcher.update_file(updated_path)
UpdateFile ==
    /\ watcher.pc = "ready"
    /\ watcher.updates < MaxUpdates
    /\ \E f \in WatchedFiles :
          LET r == update_file(watcher, f)
          IN watcher' = [r.watcher EXCEPT
                            !.updates = @ + 1,
                            !.stale = IF r.result.tag = "Ok" THEN @ \ {f} ELSE @,
                            !.last = Some([fn |-> "update_file", file |-> f,
                                           before |-> watcher.edges,
                                           result |-> r.result])]
    /\ WatcherUnchanged

\* get_affected_roots of lib.rs: watcher.get_affected_roots(changed, roots)
GetAffectedRoots ==
    /\ watcher.pc = "ready"
    /\ \E changed \in {"/app/b.tsx", "/app/c.tsx"},
          roots \in {<<"/app/a.tsx">>, <<"/app/a.tsx", "/app/b.tsx">>} :
          watcher' = [watcher EXCEPT
                         !.last = Some([fn |-> "get_affected_roots", changed |-> changed,
                                        roots |-> roots,
                                        result |-> get_affected_roots(watcher, changed, roots)])]
    /\ WatcherUnchanged

WatcherNext ==
    \/ EditFile
    \/ UpdateFile
    \/ GetAffectedRoots

WatcherSpec == WatcherInit /\ [][WatcherNext]_vars

(***************************************************************************)
(* Claims about the dependency watcher.                                    *)
(***************************************************************************)
\* The nodes the imports now in a file lead to.
ImportsOf(file) ==
    {normalize_path(resolve_dependency(watcher.root_dir, file, watcher.disk[file].imports[i])) :
        i \in DOMAIN watcher.disk[file].imports}

\* The import graph of the files on disk, as edges between nodes.
DiskEdges ==
    UNION {{<<normalize_path(f), t>> : t \in ImportsOf(f)} :
                f \in {g \in WatchedFiles : watcher.disk[g] # Unparsable}}

RECURSIVE ReachableOnDisk(_)
ReachableOnDisk(visited) ==
    LET next == visited \cup {e[2] : e \in {d \in DiskEdges : d[1] \in visited}}
    IN IF next = visited THEN visited ELSE ReachableOnDisk(next)

OutgoingEdges(edges, node) == SelectSeq(edges, LAMBDA e : e[1] = node)

UpdateSucceeded ==
    /\ watcher.last # None
    /\ watcher.last.v.fn = "update_file"
    /\ watcher.last.v.result.tag = "Ok"

\* C28: after update_file(f) succeeds the outgoing edges of f's node are
\* exactly the imports in f's current contents, one edge per import (edges
\* of removed imports are gone, none is duplicated), and the edges of other
\* nodes are as before, after any sequence of calls; so once every edited
\* file has been updated, get_affected_roots reports a root only if the
\* changed file is reachable from it through the imports now on disk.
C28_EdgesFollowTheImports ==
    /\ UpdateSucceeded =>
        LET f == watcher.last.v.file
            node == normalize_path(f)
            out == OutgoingEdges(watcher.edges, node)
        IN /\ {out[i][2] : i \in DOMAIN out} = ImportsOf(f)
           /\ Len(out) = Cardinality(ImportsOf(f))
           /\ SelectSeq(watcher.edges, LAMBDA e : e[1] # node)
                = SelectSeq(watcher.last.v.before, LAMBDA e : e[1] # node)
    /\ (/\ watcher.last # None
        /\ watcher.last.v.fn = "get_affected_roots"
        /\ watcher.last.v.result.tag = "Ok"
        /\ watcher.stale = {})
        => \A i \in DOMAIN watcher.last.v.roots :
             watcher.node_map[normalize_path(watcher.last.v.roots[i])]
                    \in watcher.last.v.result.value
                => normalize_path(watcher.last.v.changed)
                        \in ReachableOnDisk({normalize_path(watcher.last.v.roots[i])})

(***************************************************************************)
(* BuildSpec: one build_javascript call (src/src/lib.rs) with its          *)
(* rebuild_contexts (src/src_go/src/lib.rs).  The bundler behind           *)
(* GetBuildContext and RebuildContext is a black box: a rebuild fails with *)
(* a message, or leaves <path>.out and <path>.out.map beside the source.   *)
(* The calling thread is "main"; worker i rebuilds the i-th context.       *)
(***************************************************************************)
MaxContexts == 2    \* BuildContextParams handed to build_javascript

BuildContextParams ==
    {[path |-> "/app/home/page.tsx", is_server |-> FALSE,
      controller_name |-> "home", output_dir |-> "/out"],
     [path |-> "/app/detail/page.tsx", is_server |-> TRUE,
      controller_name |-> "detail", output_dir |-> "/out"],
     [path |-> "/app/list/index.ts", is_server |-> FALSE,
      controller_name |-> "list", output_dir |-> "/static"]}

\* Path::file_name
file_name(path) == LET c == components(path) IN c[Len(c)]

\* original_script_path.with_extension(format!("{}.<suffix>", extension)):
\* the extension is replaced by itself followed by the suffix.
with_extension_suffix(path, suffix) ==
    LET name == file_name(path)
        dots == {i \in 2..Len(name) : SubSeq(name, i, i) = "."}
        dot == CHOOSE i \in dots : \A j \in dots : j <= i
        original_extension == SubSeq(name, dot + 1, Len(name))
    IN SubSeq(path, 1, Len(path) - Len(original_extension))
            \o original_extension \o "." \o suffix

\* The code the bundler produces for a context.
BundledCode(param) ==
    IF param.is_server THEN "export const Index=()=>\"<html>\";\n" ELSE "var x=1;\n"

\* What the bundler writes for a context: the script, ending in the
\* directive that names the map written beside it, and the map.
BundledScript(param) ==
    BundledCode(param) \o "//# sourceMappingURL=" \o file_name(param.path) \o ".out.map\n"

BundledMap(param) ==
    [version |-> 3, sources |-> <<file_name(param.path), "../layout.tsx">>,
     names |-> <<>>, mappings |-> "AAAA"]

\* The message of a failed rebuild.
RebuildError(param) == "Build failed: " \o param.path

\* format!("{:x}", md5::compute(..)), for the texts of the model.
md5_hex(text) ==
    IF text = "varx=1;" THEN "0cc0ae1c6291adaa9f54caae1046c8d8"
    ELSE IF text = "exportconstIndex=()=>\"<html>\";" THEN "79f30aaf889697876ee989f31ca1d33e"
    ELSE "d41d8cd98f00b204e9800998ecf8427e"

IdleWorker == [pc |-> "none", result |-> None]

NewBuild ==
    [pc |-> "idle", params |-> <<>>, context_ids |-> <<>>, worker |-> <<>>, spawned |-> 0,
     chan |-> <<>>, sent |-> <<>>, received |-> 0, callbacks |-> <<>>, errors |-> <<>>,
     joined |-> 0, rebuild_result |-> None, outputs |-> <<>>,
     scripts |-> EmptyMap, maps |-> EmptyMap, result |-> None]

BuildInit ==
    /\ source = None
    /\ params = None
    /\ rendered = None
    /\ INIT_PLATFORM = [state |-> "incomplete", owner |-> None]
    /\ stdout_lock = None
    /\ call = IdleCalls
    /\ bundle = IdleRender
    /\ independent = [pc |-> "idle"]
    /\ source_map = [pc |-> "idle"]
    /\ lexer = [pc |-> "idle"]
    /\ map_paths = [pc |-> "idle"]
    /\ logger = [pc |-> "idle"]
    /\ watcher = [pc |-> "idle"]
    /\ build = [pc |-> "idle"]
    /\ console = [pc |-> "idle"]

BuildUnchanged ==
    UNCHANGED <<source, params, rendered, INIT_PLATFORM, stdout_lock, call, bundle,
                independent, source_map, lexer, map_paths, logger, watcher, console>>

\* build_javascript up to rebuild_contexts: a context per param; the first
\* get_build_context that fails ends the call.  Context i has id i.
BuildJavascript ==
    /\ build.pc = "idle"
    /\ \E n \in 0..MaxContexts :
       \E ps \in InjSeqs(BuildContextParams, n), failing \in 0..n :
          build' = IF failing > 0
                   THEN [NewBuild EXCEPT !.pc = "done", !.params = ps,
                            !.context_ids = [i \in 1..(failing - 1) |-> i],
                            !.result = PyValueError("Failed to create context")]
                   ELSE [NewBuild EXCEPT !.pc = "spawn", !.params = ps,
                            !.context_ids = [i \in 1..n |-> i],
                            !.worker = [i \in 1..n |-> IdleWorker]]
    /\ BuildUnchanged

\* rebuild_contexts, the first loop: thread::spawn for the next id.
SpawnWorker ==
    /\ build.pc = "spawn"
    /\ \E i \in DOMAIN build.worker :
          /\ build.worker[i].pc = "none"
          /\ \A j \in 1..(i - 1) : build.worker[j].pc # "none"
          /\ build' = [build EXCEPT !.worker[i].pc = "spawned", !.spawned = @ + 1]
    /\ BuildUnchanged

\* The first loop is over: the calling thread goes on to receive.
SpawnDone ==
    /\ build.pc = "spawn"
    /\ \A i \in DOMAIN build.worker : build.worker[i].pc # "none"
    /\ build' = [build EXCEPT !.pc = "collect"]
    /\ BuildUnchanged

\* The worker's RebuildContext(id): an error message, or the two files.
WorkerRebuild(i) ==
    /\ build.pc # "idle"
    /\ i \in DOMAIN build.worker
    /\ build.worker[i].pc = "spawned"
    /\ LET param == build.params[i]
       IN \/ build' = [build EXCEPT !.worker[i] =
                            [pc |-> "rebuilt", result |-> Some(RebuildError(param))]]
          \/ build' = [build EXCEPT
                !.worker[i] = [pc |-> "rebuilt", result |-> None],
                !.scripts = Insert(@, with_extension_suffix(param.path, "out"),
                                   BundledScript(param)),
                !.maps = Insert(@, with_extension_suffix(param.path, "out.map"),
                                BundledMap(param))]
    /\ BuildUnchanged

\* tx.send((id, result.clone())).unwrap(): the receiver lives until
\* rebuild_contexts returns, so the send succeeds.
WorkerSend(i) ==
    /\ build.pc # "idle"
    /\ i \in DOMAIN build.worker
    /\ build.worker[i].pc = "rebuilt"
    /\ build' = [build EXCEPT
            !.worker[i].pc = "sent",
            !.chan = Append(@, [id |-> build.context_ids[i], err |-> build.worker[i].result]),
            !.sent = Append(@, i)]
    /\ BuildUnchanged

\* The worker's closure returns.
WorkerExit(i) ==
    /\ build.pc # "idle"
    /\ i \in DOMAIN build.worker
    /\ build.worker[i].pc = "sent"
    /\ build' = [build EXCEPT !.worker[i].pc = "exited"]
    /\ BuildUnchanged

\* The variant of the second loop that calls the callback for every result.
ReceiveResultAndCall ==
    /\ build.pc = "collect"
    /\ build.received < Len(build.context_ids)
    /\ build.chan # <<>>
    /\ build' = [build EXCEPT
            !.chan = Tail(@), !.received = @ + 1,
            !.errors = IF Head(build.chan).err # None THEN Append(@, Head(build.chan).err.v)
                       ELSE @,
            !.callbacks = Append(@, [id |-> Head(build.chan).id, thread |-> "main"])]
    /\ BuildUnchanged

\* rebuild_contexts, one round of the second loop: rx.recv() blocks until a
\* result is there; an error is kept, a success calls the callback.
ReceiveResult ==
    /\ build.pc = "collect"
    /\ build.received < Len(build.context_ids)
    /\ build.chan # <<>>
    /\ LET msg == Head(build.chan)
       IN build' = [build EXCEPT
                !.chan = Tail(@), !.received = @ + 1,
                !.errors = IF msg.err # None THEN Append(@, msg.err.v) ELSE @,
                !.callbacks = IF msg.err = None
                              THEN Append(@, [id |-> msg.id, thread |-> "main"]) ELSE @]
    /\ BuildUnchanged

\* The second loop is over.
CollectDone ==
    /\ build.pc = "collect"
    /\ build.received = Len(build.context_ids)
    /\ build' = [build EXCEPT !.pc = "join"]
    /\ BuildUnchanged

\* rebuild_contexts, the third loop: handle.join() of the next worker.
JoinWorker ==
    /\ build.pc = "join"
    /\ build.joined < Len(build.worker)
    /\ build.worker[build.joined + 1].pc = "exited"
    /\ build' = [build EXCEPT !.joined = @ + 1]
    /\ BuildUnchanged

\* rebuild_contexts returns; build_javascript returns the errors joined by
\* newlines, or goes on to the output files.
RebuildContextsReturn ==
    /\ build.pc = "join"
    /\ build.joined = Len(build.worker)
    /\ build' = IF build.errors = <<>>
                THEN [build EXCEPT !.pc = "output", !.rebuild_result = Some(Ok("()"))]
                ELSE [build EXCEPT !.pc = "done",
                            !.rebuild_result = Some([tag |-> "Err", errors |-> build.errors]),
                            !.result = PyValueError(join_strings(build.errors, "\n"))]
    /\ BuildUnchanged

\* build_javascript, one round of the last loop: the map beside the source
\* gets absolute paths, the script gets its name (with the hash of its code
\* for a client build) and its directive rewritten, and both are written to
\* the output directory.
WriteOutput ==
    /\ build.pc = "output"
    /\ Len(build.outputs) < Len(build.params)
    /\ LET param == build.params[Len(build.outputs) + 1]
           script_file_path == with_extension_suffix(param.path, "out")
           map_file_path == with_extension_suffix(param.path, "out.map")
           map_contents ==
               make_source_map_paths_absolute(build.maps[map_file_path], param.path,
                                              CHOOSE d \in WorkingDirectories : TRUE)
           script_contents == build.scripts[script_file_path]
           content_hash == md5_hex(strip_js_comments(script_contents, TRUE))
           script_name == IF ~param.is_server
                          THEN param.controller_name \o "-" \o content_hash \o ".js"
                          ELSE param.controller_name \o ".js"
           map_name == script_name \o ".map"
       IN build' = [build EXCEPT
                !.outputs = Append(@, [script_name |-> script_name, map_name |-> map_name]),
                !.scripts = Insert(@, path_join(param.output_dir, script_name),
                                   update_source_map_path(script_contents, map_name)),
                !.maps = Insert(@, path_join(param.output_dir, map_name), map_contents.value)]
    /\ BuildUnchanged

\* build_javascript returns Ok(true).
BuildReturn ==
    /\ build.pc = "output"
    /\ Len(build.outputs) = Len(build.params)
    /\ build' = [build EXCEPT !.pc = "done", !.result = Ok(TRUE)]
    /\ BuildUnchanged

BuildNext ==
    \/ BuildJavascript
    \/ SpawnWorker
    \/ SpawnDone
    \/ \E i \in 1..MaxContexts : WorkerRebuild(i)
    \/ \E i \in 1..MaxContexts : WorkerSend(i)
    \/ \E i \in 1..MaxContexts : WorkerExit(i)
    \/ ReceiveResult
    \/ CollectDone
    \/ JoinWorker
    \/ RebuildContextsReturn
    \/ WriteOutput
    \/ BuildReturn

BuildSpec == BuildInit /\ [][BuildNext]_vars

(***************************************************************************)
(* Claims about rebuild_contexts and build_javascript.                     *)
(***************************************************************************)
\* rebuild_contexts has returned.
RebuildReturned == build.pc \in {"output", "done"} /\ build.rebuild_result # None

\* The workers whose rebuild succeeded / failed, in the order they sent.
SentWith(ok) ==
    SelectSeq(build.sent, LAMBDA i : (build.worker[i].result = None) = ok)

\* C29: rebuild_contexts starts one worker per id; the callback runs exactly
\* once for every id whose rebuild succeeded and never for one that failed,
\* on the calling thread and in the order the workers completed; the call
\* returns only after every worker was joined, Ok when no rebuild failed and
\* otherwise the errors, one message per failed id.
C29_OneCallbackPerSuccessAfterJoin ==
    /\ build.pc # "idle" =>
          /\ \A k \in DOMAIN build.callbacks : build.callbacks[k].thread = "main"
          /\ build.spawned <= Len(build.context_ids)
    /\ RebuildReturned =>
          /\ build.spawned = Len(build.context_ids)
          /\ Len(build.worker) = Len(build.context_ids)
          /\ \A i \in DOMAIN build.worker : build.worker[i].pc = "exited"
          /\ build.joined = Len(build.worker)
          /\ build.callbacks =
                [k \in DOMAIN SentWith(TRUE) |->
                    [id |-> build.context_ids[SentWith(TRUE)[k]], thread |-> "main"]]
          /\ \A i \in DOMAIN build.worker :
                Cardinality({k \in DOMAIN build.callbacks :
                                build.callbacks[k].id = build.context_ids[i]})
                    = (IF build.worker[i].result = None THEN 1 ELSE 0)
          /\ IF \A i \in DOMAIN build.worker : build.worker[i].result = None
             THEN build.rebuild_result = Some(Ok("()"))
             ELSE /\ build.rebuild_result.v.tag = "Err"
                  /\ build.rebuild_result.v.errors =
                        [k \in DOMAIN SentWith(FALSE) |->
                            build.worker[SentWith(FALSE)[k]].result.v]

\* rebuild_contexts returned with one rebuild failed and one succeeded, the
\* later context having completed first.
C29_Witness ==
    /\ RebuildReturned
    /\ build.sent = <<2, 1>>
    /\ Len(build.callbacks) = 1
    /\ Len(build.errors) = 1

\* C30: for every file build_javascript processed, the directive of the
\* script written to the output directory names the map written beside it,
\* <script_name>.map, where script_name is <controller>-<hash>.js for a
\* client build and <controller>.js for a server build.
C30_DirectiveNamesTheWrittenMap ==
    build.pc # "idle" =>
        \A k \in DOMAIN build.outputs :
            LET param == build.params[k]
                script_name ==
                    IF param.is_server THEN param.controller_name \o ".js"
                    ELSE param.controller_name \o "-"
                            \o md5_hex(strip_js_comments(BundledCode(param), TRUE)) \o ".js"
            IN /\ build.outputs[k].script_name = script_name
               /\ path_join(param.output_dir, script_name \o ".map") \in DOMAIN build.maps
               /\ build.scripts[path_join(param.output_dir, script_name)]
                    = BundledCode(param) \o "//# " \o DirectivePrefix
                        \o script_name \o ".map" \o "\n"

\* The names and the map file are as stated; the directive carries the
\* suffix twice.
C30_DirectiveCarriesTheSuffixTwice ==
    build.pc # "idle" =>
        \A k \in DOMAIN build.outputs :
            LET param == build.params[k]
                script_name == build.outputs[k].script_name
            IN /\ build.outputs[k].map_name = script_name \o ".map"
               /\ path_join(param.output_dir, script_name \o ".map") \in DOMAIN build.maps
               /\ build.scripts[path_join(param.output_dir, script_name)]
                    = BundledCode(param) \o "//# " \o DirectivePrefix
                        \o script_name \o ".map.map" \o "\n"

====
